---- MODULE Spec2Model ----
(***************************************************************************)
(* State-machine model of the rails back-end (sibabale/rails):             *)
(*   - Accounts service: the idempotent deposit / withdraw / transfer      *)
(*     pipeline (intent row, ledger post, settlement), the explicit        *)
(*     create_transaction endpoint and the ledger retry worker;            *)
(*   - Accounts service: account status changes and the resolution of the  *)
(*     environment on the account-creation paths;                          *)
(*   - Users service: the password-reset token machine, login and session  *)
(*     rotation, API keys and the AuthContext extractor.                   *)
(* Storage is PostgreSQL at READ COMMITTED: a statement reads a snapshot   *)
(* of the committed rows, writes of an open transaction are invisible to   *)
(* others until commit, and a writer that meets a row written by an open   *)
(* transaction waits for that transaction to end.                          *)
(***************************************************************************)
EXTENDS Integers, Sequences, FiniteSets, TLC

VARIABLES
    now,        \* wall clock: seconds (Accounts), hours (reset), days (sessions)
    accounts,   \* accounts table: account id -> row
    txs,        \* transactions table: transaction id -> row (with its commit state)
    nextTxId,   \* next id the transactions table hands out
    calls,      \* the money-movement requests: call -> its position and locals
    wpc,        \* retry worker: position in its loop
    wq,         \* retry worker: the rows of the current sweep still to process
    wpost,      \* retry worker: the ledger request in flight / last sent
    wres,       \* retry worker: the result of that ledger call
    ledgerFate, \* what the external ledger answers for a transaction id (SpecRetry)
    users,      \* users table: user id -> row
    tokens,     \* password_reset_tokens table: token id -> committed row
    nextToken,  \* the next fresh reset token (generate_reset_token)
    requests,   \* request_password_reset calls: call -> its position and locals
    resets,     \* reset_password calls: call -> its position and locals
    sessions,   \* user_sessions table: session id -> committed row
    jwts,       \* the bearer tokens minted so far (their claims)
    refreshes,  \* refresh_token calls: call -> its position and locals
    apiKeys,    \* api_keys table: key id -> row
    authOut,    \* the last Users request served in one step, and its response
    statusCalls,\* update_account_status calls: call -> its position and locals
    envOut,     \* the last account-creation request, and the environment it got
    businesses, \* businesses table: business id -> committed row
    environments, \* environments table: environment id -> committed row
    regs,       \* register_business calls: call -> its position and locals
    store,      \* RateLimiter.store: client key -> the entry of its window
    mutex,      \* the Mutex around the store: the call holding it, or 0
    allows,     \* RateLimiter::allow calls: call -> its position and locals
    allowLog,   \* the finished allow calls, in the order they left the lock
    keyLog,     \* the requests the rate-limit middleware has keyed, with their keys
    events,     \* the USER_CREATED stream: message -> its payload and delivery state
    published,  \* the account.created events published so far
    httpOut,    \* the last request the middleware stacks served, and its response
    accountNumbers, \* the account_number column of the accounts table
    gens        \* generate_account_number calls: call -> its position and locals

moneyVars == <<accounts, txs, nextTxId, calls, wpc, wq, wpost, wres, ledgerFate>>

resetVars == <<users, tokens, nextToken, requests, resets>>

identityVars == <<sessions, jwts, refreshes, apiKeys, authOut>>

accountVars == <<statusCalls, envOut>>

registryVars == <<businesses, environments, regs>>

limitVars == <<store, mutex, allows, allowLog, keyLog>>

eventVars == <<events, published>>

stackVars == <<httpOut>>

numberVars == <<accountNumbers, gens>>

platformVars == <<registryVars, limitVars, eventVars, stackVars, numberVars>>

vars == <<now, moneyVars, resetVars, identityVars, accountVars, platformVars>>

(***************************************************************************)
(* Bounds of the model.                                                    *)
(***************************************************************************)
MaxCalls == 2
MaxTime == 3
TickStep == 3

(***************************************************************************)
(* Program constants.                                                      *)
(***************************************************************************)
\* transaction_retry.rs: Duration::seconds(2), the grace before a retry.
GraceSecs == 2
\* transaction_retry.rs: Some(200), the sweep's batch limit, scaled down to 2:
\* what matters is whether more rows are pending than one sweep takes.
BatchLimit == 2

NULL == "NULL"

Calls == 1..MaxCalls

(***************************************************************************)
(* Accounts table.                                                         *)
(***************************************************************************)
AccountIds == {"A1", "A2", "A3", "B1"}

AccountRows ==
    [a \in AccountIds |->
        [organization_id |-> IF a = "B1" THEN "O2" ELSE "O1",
         currency |-> IF a = "A3" THEN "EUR" ELSE "USD",
         environment |-> "sandbox",
         status |-> "active"]]

\* AccountRepository::find_by_id: the row, or NotFound.
find_by_id(id) ==
    IF id \in DOMAIN accounts THEN [ok |-> TRUE, account |-> accounts[id]]
    ELSE [ok |-> FALSE, err |-> "NotFound"]

(***************************************************************************)
(* Transactions table.                                                     *)
(***************************************************************************)
\* COALESCE(environment, '')
Coalesce(env) == IF env = NULL THEN "" ELSE env

\* The key of the unique index on
\* (organization_id, COALESCE(environment, ''), idempotency_key).
IdemTriple(row) ==
    <<row.organization_id, Coalesce(row.environment), row.idempotency_key>>

Committed == {id \in DOMAIN txs : txs[id].committed}

\* The `existing` CTE of create_or_get_by_idempotency: the committed rows
\* with the caller's (organization, COALESCE(environment,''), key).
Existing(org, env, key) ==
    {id \in Committed : IdemTriple(txs[id]) = <<org, Coalesce(env), key>>}

\* The rows any transaction has written under the same unique-index key.
IndexConflicts(org, env, key) ==
    {id \in DOMAIN txs : IdemTriple(txs[id]) = <<org, Coalesce(env), key>>}

\* Mutant of UniqueIndexRejects: the table has no unique index.
UniqueIndexMissing(org, env, key) == FALSE

\* The unique index: an insert is refused when a row with its key exists.
UniqueIndexRejects(org, env, key) == IndexConflicts(org, env, key) # {}

\* The row the `inserted` CTE writes.
NewRow(id, org, from, to, amount, currency, kind, key, env, owner) ==
    [id |-> id, organization_id |-> org, from_account_id |-> from,
     to_account_id |-> to, amount |-> amount, currency |-> currency,
     transaction_kind |-> kind, status |-> "pending", failure_reason |-> NULL,
     idempotency_key |-> key, environment |-> env,
     created_at |-> now, updated_at |-> now,
     committed |-> FALSE, owner |-> owner]

\* TransactionRepository::update_status: UPDATE ... WHERE id = $1.
update_status(T, id, status, failure_reason) ==
    [T EXCEPT ![id].status = status,
              ![id].failure_reason = failure_reason,
              ![id].updated_at = now]

(***************************************************************************)
(* Ledger client.                                                          *)
(***************************************************************************)
\* What the remote side of one PostTransaction call does: it answers
\* posted or rejected, or the call dies on connect, in transport or by timeout.
LedgerOutcomes == {"posted", "rejected", "connect_failed", "transport", "timeout"}

NoPost == [sent |-> FALSE]

\* LedgerGrpc::env_to_proto
env_to_proto(environment) ==
    IF environment \in {"sandbox", "production"}
    THEN [ok |-> TRUE]
    ELSE [ok |-> FALSE, err |-> "Validation",
          msg |-> "Validation error: invalid environment for ledger gRPC"]

\* LedgerGrpc::post_transaction: the Result the caller gets for a remote outcome.
post_transaction(environment, outcome) ==
    IF ~env_to_proto(environment).ok THEN env_to_proto(environment)
    ELSE CASE outcome = "connect_failed" ->
                [ok |-> FALSE, err |-> "Internal",
                 msg |-> "Internal server error: ledger gRPC connect failed"]
           [] outcome = "timeout" ->
                [ok |-> FALSE, err |-> "Internal",
                 msg |-> "Internal server error: ledger gRPC post timeout expired"]
           [] outcome = "transport" ->
                [ok |-> FALSE, err |-> "Internal",
                 msg |-> "Internal server error: ledger gRPC post failed"]
           [] outcome = "posted" -> [ok |-> TRUE]
           [] OTHER ->
                [ok |-> FALSE, err |-> "BusinessLogic",
                 msg |-> "Business logic error: ledger post failed"]

\* Whether the PostTransactionRequest goes out on the wire: the environment
\* translated and the channel connected.
RequestSent(environment, outcome) ==
    env_to_proto(environment).ok /\ outcome # "connect_failed"

\* The PostTransactionRequest built from the caller's arguments.
PostRequest(org, environment, src, dst, amount, currency, txid, key) ==
    [sent |-> TRUE, organization_id |-> org, environment |-> environment,
     source |-> src, destination |-> dst, amount |-> amount,
     currency |-> currency, external_transaction_id |-> txid,
     idempotency_key |-> key]

(***************************************************************************)
(* Money-movement requests.                                                *)
(***************************************************************************)
\* str::trim on the keys the model uses.
Trim(s) == IF s = " " THEN "" ELSE s

IdleCall ==
    [pc |-> "idle", req |-> NULL, org |-> NULL, currency |-> NULL,
     environment |-> NULL, tx |-> NULL, inserted |-> FALSE, post |-> NoPost,
     outcome |-> NULL, res |-> NULL, result |-> NULL, ret |-> NULL]

\* A client request: the operation, the account(s), the amount and the
\* Idempotency-Key; create_transaction also carries the X-Environment value.
Request(kind, from, to, amount, key, env) ==
    [kind |-> kind, from |-> from, to |-> to, amount |-> amount, key |-> key,
     env |-> env, currency |-> "USD"]

\* The requests of SpecIntent: one key, used in two organizations, with and
\* without an environment, with different kinds and amounts.
IntentRequests ==
    {Request("deposit", "A1", "A1", m, "K1", NULL) : m \in {1, 2}}
    \cup {Request("deposit", "B1", "B1", 1, "K1", NULL),
          Request("transfer", "A1", "A2", 1, "K1", NULL),
          Request("create_transaction", "A1", "A2", 1, "K1", "sandbox")}

\* The requests of SpecSettle: one (organization, environment, key), sent
\* with different kinds and amounts.
SettleRequests ==
    {Request("deposit", "A1", "A1", m, "K1", NULL) : m \in {1, 2}}
    \cup {Request("withdraw", "A1", "A1", 1, "K1", NULL),
          Request("transfer", "A1", "A2", 1, "K1", NULL)}

Fail(err) == [ok |-> FALSE, err |-> err]

\* A request that returned: its response (result, and the transaction row it
\* returns) and what it sent to the ledger; its locals are gone.
Finished(req, result, ret, post, outcome) ==
    [IdleCall EXCEPT !.pc = "done", !.req = req, !.result = result, !.ret = ret,
                     !.post = post, !.outcome = outcome]

\* Handler checks that let an amount of zero through.
HandlerAcceptsZero(req) ==
    IF req.key = NULL \/ Trim(req.key) = "" THEN Fail("Validation")
    ELSE IF req.kind # "create_transaction" /\ req.amount < 0 THEN Fail("Validation")
    ELSE [ok |-> TRUE]

\* handlers::accounts::{deposit, withdraw, transfer} and
\* handlers::transactions::create_transaction: the Idempotency-Key header must
\* be present and not blank; the account handlers also check the amount.
HandlerValidate(req) ==
    IF req.key = NULL \/ Trim(req.key) = "" THEN Fail("Validation")
    ELSE IF req.kind # "create_transaction" /\ req.amount <= 0 THEN Fail("Validation")
    ELSE [ok |-> TRUE]

\* AccountService::{deposit,withdraw}_with_idempotency up to pool.begin().
ValidateSingle(req) ==
    LET a == find_by_id(req.from) IN
    IF Trim(req.key) = "" THEN Fail("Validation")
    ELSE IF ~a.ok THEN Fail("NotFound")
    ELSE IF a.account.status # "active" THEN Fail("AccountNotActive")
    ELSE IF a.account.organization_id = NULL THEN Fail("Validation")
    ELSE [ok |-> TRUE, org |-> a.account.organization_id,
          currency |-> IF a.account.currency = NULL THEN "USD" ELSE a.account.currency,
          environment |-> IF a.account.environment = NULL THEN "sandbox"
                          ELSE a.account.environment]

\* Transfer checks that compare neither the organizations nor the currencies.
TransferUnchecked(req) ==
    LET f == find_by_id(req.from)
        t == find_by_id(req.to)
        cur(a) == IF a.currency = NULL THEN "USD" ELSE a.currency
    IN
    IF Trim(req.key) = "" THEN Fail("Validation")
    ELSE IF ~f.ok THEN Fail("NotFound")
    ELSE IF f.account.status # "active" THEN Fail("AccountNotActive")
    ELSE IF ~t.ok THEN Fail("NotFound")
    ELSE IF t.account.status # "active" THEN Fail("AccountNotActive")
    ELSE [ok |-> TRUE, org |-> f.account.organization_id,
          currency |-> cur(f.account),
          environment |-> IF f.account.environment = NULL THEN "sandbox"
                          ELSE f.account.environment]

\* AccountService::transfer_with_idempotency up to pool.begin().
ValidateTransfer(req) ==
    LET f == find_by_id(req.from)
        t == find_by_id(req.to)
        cur(a) == IF a.currency = NULL THEN "USD" ELSE a.currency
    IN
    IF Trim(req.key) = "" THEN Fail("Validation")
    ELSE IF ~f.ok THEN Fail("NotFound")
    ELSE IF f.account.status # "active" THEN Fail("AccountNotActive")
    ELSE IF ~t.ok THEN Fail("NotFound")
    ELSE IF t.account.status # "active" THEN Fail("AccountNotActive")
    ELSE IF f.account.organization_id = NULL \/ t.account.organization_id = NULL
         THEN Fail("Validation")
    ELSE IF f.account.organization_id # t.account.organization_id THEN Fail("Validation")
    ELSE IF cur(f.account) # cur(t.account) THEN Fail("Validation")
    ELSE [ok |-> TRUE, org |-> f.account.organization_id,
          currency |-> cur(f.account),
          environment |-> IF f.account.environment = NULL THEN "sandbox"
                          ELSE f.account.environment]

\* TransactionService::create_transaction up to pool.begin(); the accounts are
\* looked up in the request's environment.
ValidateCreateTransaction(req) ==
    LET f == find_by_id(req.from)
        t == find_by_id(req.to)
        cur(a) == IF a.currency = NULL THEN "USD" ELSE a.currency
    IN
    IF Trim(req.key) = "" THEN Fail("Validation")
    ELSE IF ~f.ok \/ f.account.environment # req.env THEN Fail("NotFound")
    ELSE IF ~t.ok \/ t.account.environment # req.env THEN Fail("NotFound")
    ELSE IF f.account.organization_id = NULL \/ t.account.organization_id = NULL
         THEN Fail("Validation")
    ELSE IF f.account.organization_id # t.account.organization_id THEN Fail("Validation")
    ELSE IF req.currency # cur(f.account) \/ req.currency # cur(t.account)
         THEN Fail("Validation")
    ELSE IF req.amount <= 0 THEN Fail("Validation")
    ELSE [ok |-> TRUE, org |-> f.account.organization_id,
          currency |-> req.currency, environment |-> req.env]

Validate(req) ==
    IF ~HandlerValidate(req).ok THEN HandlerValidate(req)
    ELSE CASE req.kind \in {"deposit", "withdraw"} -> ValidateSingle(req)
           [] req.kind = "transfer" -> ValidateTransfer(req)
           [] OTHER -> ValidateCreateTransaction(req)

\* What the service keeps of the row create_or_get returned: it reads the id
\* and the idempotency key; create_transaction returns the whole row.
Kept(req, row) ==
    IF req.kind = "create_transaction" THEN row
    ELSE [id |-> row.id, idempotency_key |-> row.idempotency_key]

\* A request arrives: the handler and the service validate it and load the
\* account(s); a valid one goes on to its storage transaction.
Begin(c, req) ==
    /\ calls[c].pc = "idle"
    /\ IF c = 1 THEN TRUE ELSE calls[c - 1].pc # "idle"
    /\ LET v == Validate(req) IN
       calls' = [calls EXCEPT ![c] =
            IF v.ok
            THEN [@ EXCEPT !.pc = "cte", !.req = req, !.org = v.org,
                           !.currency = v.currency, !.environment = v.environment]
            ELSE Finished(req, v, NULL, NoPost, NULL)]
    /\ UNCHANGED <<now, accounts, txs, nextTxId, wpc, wq, wpost, wres, ledgerFate, resetVars, identityVars, accountVars, platformVars>>

\* create_or_get_by_idempotency, first half of the statement: the `existing`
\* CTE reads the statement's snapshot. A hit is returned as it is.
CteSnapshot(c) ==
    /\ calls[c].pc = "cte"
    /\ LET hit == Existing(calls[c].org, calls[c].req.env, calls[c].req.key) IN
       IF hit # {}
       THEN \E id \in hit :
              calls' = [calls EXCEPT ![c].pc = "commit",
                                       ![c].tx = Kept(calls[c].req, txs[id])]
       ELSE calls' = [calls EXCEPT ![c].pc = "insert"]
    /\ UNCHANGED <<now, accounts, txs, nextTxId, wpc, wq, wpost, wres, ledgerFate, resetVars, identityVars, accountVars, platformVars>>

\* The insert may go ahead: no open transaction holds the index key.
InsertUnblocked(c) ==
    \A id \in IndexConflicts(calls[c].org, calls[c].req.env, calls[c].req.key) :
        txs[id].committed

\* create_or_get_by_idempotency, second half: the `inserted` CTE. The snapshot
\* held no row, so the INSERT runs; the unique index refuses it when a row with
\* the key was committed meanwhile, and the statement fails (sqlx::Error ->
\* AppError::Database), which drops the storage transaction.
CteInsert(c) ==
    /\ calls[c].pc = "insert"
    /\ InsertUnblocked(c)
    /\ IF UniqueIndexRejects(calls[c].org, calls[c].req.env, calls[c].req.key)
       THEN /\ calls' = [calls EXCEPT ![c] =
                            Finished(calls[c].req, Fail("Database"), NULL, NoPost, NULL)]
            /\ UNCHANGED <<txs, nextTxId>>
       ELSE LET r == calls[c].req
                row == NewRow(nextTxId, calls[c].org, r.from, r.to, r.amount,
                              calls[c].currency,
                              IF r.kind = "create_transaction" THEN "transfer" ELSE r.kind,
                              r.key, r.env, c)
            IN /\ txs' = (nextTxId :> row) @@ txs
               /\ nextTxId' = nextTxId + 1
               /\ calls' = [calls EXCEPT ![c].pc = "commit", ![c].tx = Kept(r, row),
                                         ![c].inserted = TRUE]
    /\ UNCHANGED <<now, accounts, wpc, wq, wpost, wres, ledgerFate, resetVars, identityVars, accountVars, platformVars>>

\* tx.commit(): the intent is durable. create_transaction ends here (its
\* NoopLedgerAdapter sends nothing).
Commit(c) ==
    /\ calls[c].pc = "commit"
    /\ txs' = IF calls[c].inserted
              THEN [txs EXCEPT ![calls[c].tx.id].committed = TRUE]
              ELSE txs
    /\ calls' = [calls EXCEPT ![c] =
            IF calls[c].req.kind = "create_transaction"
            THEN Finished(calls[c].req, [ok |-> TRUE], calls[c].tx, NoPost, NULL)
            ELSE [@ EXCEPT !.pc = "post"]]
    /\ UNCHANGED <<now, accounts, nextTxId, wpc, wq, wpost, wres, ledgerFate, resetVars, identityVars, accountVars, platformVars>>

\* Mutant of CanPost: the ledger call is issued without waiting for the commit.
CanPostBeforeCommit(c) == calls[c].pc \in {"commit", "post"}

\* The position from which the service calls the ledger: after tx.commit().
CanPost(c) == calls[c].pc = "post"

\* The source and destination the service names to the ledger.
ServiceSource(req) == IF req.kind = "deposit" THEN "SYSTEM_CASH_CONTROL" ELSE req.from
ServiceDestination(req) == IF req.kind = "withdraw" THEN "SYSTEM_CASH_CONTROL" ELSE req.to

\* ledger_grpc.post_transaction(...) of the synchronous path, with the
\* arguments the service passes.
LedgerPost(c, outcome) ==
    /\ CanPost(c)
    /\ LET r == calls[c].req IN
       calls' = [calls EXCEPT
            ![c].pc = "settle",
            ![c].outcome = outcome,
            ![c].post = IF RequestSent(calls[c].environment, outcome)
                        THEN PostRequest(calls[c].org, calls[c].environment,
                                         ServiceSource(r), ServiceDestination(r),
                                         r.amount, calls[c].currency,
                                         calls[c].tx.id, calls[c].tx.idempotency_key)
                        ELSE NoPost,
            ![c].res = post_transaction(calls[c].environment, outcome)]
    /\ UNCHANGED <<now, accounts, txs, nextTxId, wpc, wq, wpost, wres, ledgerFate, resetVars, identityVars, accountVars, platformVars>>

\* Mutant of SettleStatus: any ledger error fails the intent.
SettleStatusFailsOnError(res) == IF res.ok THEN "posted" ELSE "failed"

\* The status and reason the synchronous path settles a ledger result with.
SettleStatus(res) == IF res.ok THEN "posted" ELSE "pending"
SettleReason(res) == IF res.ok THEN NULL ELSE res.msg

\* match post_result { ... update_status ... }; Ok((account, transaction)).
Settle(c) ==
    /\ calls[c].pc = "settle"
    /\ txs' = update_status(txs, calls[c].tx.id, SettleStatus(calls[c].res),
                            SettleReason(calls[c].res))
    /\ calls' = [calls EXCEPT ![c] =
            Finished(calls[c].req, [ok |-> TRUE], txs'[calls[c].tx.id],
                     calls[c].post, calls[c].outcome)]
    /\ UNCHANGED <<now, accounts, nextTxId, wpc, wq, wpost, wres, ledgerFate, resetVars, identityVars, accountVars, platformVars>>

\* The request's task is dropped at a suspension point (client gone, crash):
\* an open storage transaction rolls back, committed state stays.
Cancel(c) ==
    /\ calls[c].pc \in {"cte", "insert", "commit", "post", "settle"}
    /\ txs' = IF calls[c].pc = "commit" /\ calls[c].inserted
              THEN [id \in DOMAIN txs \ {calls[c].tx.id} |-> txs[id]]
              ELSE txs
    /\ calls' = [calls EXCEPT ![c] =
            [Finished(calls[c].req, NULL, NULL, calls[c].post, calls[c].outcome)
                EXCEPT !.pc = "cancelled"]]
    /\ UNCHANGED <<now, accounts, nextTxId, wpc, wq, wpost, wres, ledgerFate, resetVars, identityVars, accountVars, platformVars>>

Tick ==
    /\ now + TickStep <= MaxTime
    /\ now' = now + TickStep
    /\ UNCHANGED <<moneyVars, resetVars, identityVars, accountVars, platformVars>>

(***************************************************************************)
(* Retry worker (services::transaction_retry::run).                        *)
(***************************************************************************)
\* The columns of a fetched row the worker goes on to read.
WorkerView(row) ==
    [id |-> row.id, organization_id |-> row.organization_id,
     from_account_id |-> row.from_account_id, to_account_id |-> row.to_account_id,
     amount |-> row.amount, currency |-> row.currency,
     transaction_kind |-> row.transaction_kind,
     idempotency_key |-> row.idempotency_key]

\* WHERE status = 'pending' AND created_at < $1, with $1 = now - older_than.
PendingOlder(older_than) ==
    {id \in Committed :
        txs[id].status = "pending" /\ txs[id].created_at < now - older_than}

\* TransactionRepository::find_pending_older_than_any_org without an
\* environment filter: ORDER BY created_at ASC LIMIT $2. The result is any
\* order of the oldest rows that agrees with created_at (SQL leaves ties open).
find_pending_older_than_any_org(older_than, limit) ==
    LET S == PendingOlder(older_than)
        n == IF Cardinality(S) < limit THEN Cardinality(S) ELSE limit
        picks == {s \in [1..n -> S] :
                    /\ \A i, j \in 1..n :
                         i < j => /\ s[i] # s[j]
                                  /\ txs[s[i]].created_at <= txs[s[j]].created_at
                    /\ \A id \in S \ {s[i] : i \in 1..n} :
                         \A i \in 1..n : txs[s[i]].created_at <= txs[id].created_at}
    IN {[i \in 1..n |-> WorkerView(txs[s[i]])] : s \in picks}

\* The source and destination the worker rebuilds from the row's kind.
WorkerSource(tx) ==
    IF tx.transaction_kind = "deposit" THEN "SYSTEM_CASH_CONTROL" ELSE tx.from_account_id
WorkerDestination(tx) ==
    IF tx.transaction_kind = "withdraw" THEN "SYSTEM_CASH_CONTROL" ELSE tx.to_account_id

\* The status and reason the worker settles a ledger result with.
WorkerStatus(res) == IF res.ok THEN "posted" ELSE "pending"
WorkerReason(res) == IF res.ok THEN NULL ELSE res.msg

\* Top of the loop: load the sweep's batch.
WorkerFetch ==
    /\ wpc = "sleep"
    /\ \E batch \in find_pending_older_than_any_org(GraceSecs, BatchLimit) :
         wq' = batch
    /\ wpc' = "loop"
    /\ UNCHANGED <<now, accounts, txs, nextTxId, calls, wpost, wres, ledgerFate, resetVars, identityVars, accountVars, platformVars>>

\* for tx in pending: resolve the environment through the from-account and
\* post to the ledger; a missing account skips the row.
WorkerPost(outcome) ==
    /\ wpc = "loop"
    /\ wq # <<>>
    /\ LET tx == Head(wq)
           a == find_by_id(tx.from_account_id)
           environment == IF a.account.environment = NULL THEN "sandbox"
                          ELSE a.account.environment
       IN IF ~a.ok
          THEN /\ wq' = Tail(wq)
               /\ UNCHANGED <<wpc, wpost, wres>>
          ELSE /\ wpost' = IF RequestSent(environment, outcome)
                           THEN PostRequest(tx.organization_id, environment,
                                            WorkerSource(tx), WorkerDestination(tx),
                                            tx.amount, tx.currency, tx.id,
                                            tx.idempotency_key)
                           ELSE NoPost
               /\ wres' = post_transaction(environment, outcome)
               /\ wpc' = "settle"
               /\ UNCHANGED wq
    /\ UNCHANGED <<now, accounts, txs, nextTxId, calls, ledgerFate, resetVars, identityVars, accountVars, platformVars>>

\* let _ = update_status(...): the result of the update is ignored.
WorkerSettle ==
    /\ wpc = "settle"
    /\ LET id == Head(wq).id IN
       txs' = IF id \in DOMAIN txs
              THEN update_status(txs, id, WorkerStatus(wres), WorkerReason(wres))
              ELSE txs
    /\ wq' = Tail(wq)
    /\ wpc' = "loop"
    /\ wpost' = NoPost
    /\ wres' = [ok |-> TRUE]
    /\ UNCHANGED <<now, accounts, nextTxId, calls, ledgerFate, resetVars, identityVars, accountVars, platformVars>>

\* The batch is done: sleep, then sweep again.
WorkerSleep ==
    /\ wpc = "loop"
    /\ wq = <<>>
    /\ wpc' = "sleep"
    /\ UNCHANGED <<now, accounts, txs, nextTxId, calls, wq, wpost, wres, ledgerFate, resetVars, identityVars, accountVars, platformVars>>

(***************************************************************************)
(* Users service: password reset (routes::password_reset).                 *)
(* A statement runs when no row it would write is locked by another open   *)
(* transaction; the values it binds (Utc::now()) are read before it is     *)
(* sent. The clock of this part counts hours.                              *)
(***************************************************************************)
MaxRequests == 2
MaxResets == 2
MaxHour == 2

\* request_password_reset: Duration::hours(1), the life of a token.
ResetTtlHours == 1

\* reset_password: new_password.len() < 8
MinPasswordLen == 8

\* used_at IS NULL: the column holds no time.
NoTime == -1

ReqCalls == 1..MaxRequests

ResetCalls == 1..MaxResets

UserIds == {"U1", "U2", "U3"}

\* Two registered businesses: the admin of each lives in its production
\* environment (register_business); U3 is a user the admin of BizA created in
\* the sandbox environment.
UserRows ==
    [u \in UserIds |->
        [email |-> IF u = "U1" THEN "alice" ELSE IF u = "U2" THEN "bob" ELSE "carol",
         business_id |-> IF u = "U2" THEN "BizB" ELSE "BizA",
         environment_id |-> IF u = "U1" THEN "EA_prod"
                            ELSE IF u = "U2" THEN "EB_prod" ELSE "EA_sbx",
         role |-> IF u = "U3" THEN "user" ELSE "admin",
         status |-> "active",
         password_hash |-> <<"argon2", "initialpw">>]]

Emails == {"alice", "bob", "nobody"}

Passwords == {"short", "longenough"}

\* The raw tokens a client may present: the issued ones and one never issued.
RawTokens == 0..MaxRequests

\* Sha256 of the raw token, hex-formatted.
token_hash(raw) == <<"sha256", raw>>

\* Argon2 of the new password.
password_hash(pw) == <<"argon2", pw>>

\* SELECT id FROM users WHERE email = $1 AND status = 'active' LIMIT 1
ActiveUsers(email) ==
    {u \in DOMAIN users : users[u].email = email /\ users[u].status = "active"}

BadRequest(msg) == [ok |-> FALSE, err |-> "BadRequest", msg |-> msg]

InvalidToken == BadRequest("Invalid or expired reset token")

WeakPassword == BadRequest("Password must be at least 8 characters long")

InternalError == [ok |-> FALSE, err |-> "Internal"]

IdleRequest ==
    [pc |-> "idle", email |-> NULL, user_id |-> NULL, raw |-> NULL,
     expires_at |-> NULL, used_at |-> NULL, mail |-> NULL, result |-> NULL]

\* What becomes of the mail with the reset link: state.email is None, or
\* send_password_reset returns Ok or Err.
MailOutcomes == {"unconfigured", "sent", "failed"}

\* request_password_reset, the answer when no active user has the address.
no_such_user ==
    [ok |-> TRUE,
     message |-> "If an account exists with that email, a password reset link has been sent."]

\* An answer that reports a mail that could not be sent.
reset_requested_or_mail_error(mail) ==
    IF mail = "failed" THEN InternalError
    ELSE [ok |-> TRUE,
          message |-> "If an account exists with that email, a password reset link has been sent."]

\* request_password_reset, the answer after the token was stored: the mail
\* is best-effort, its outcome is logged and the answer does not depend on it.
reset_requested(mail) ==
    [ok |-> TRUE,
     message |-> "If an account exists with that email, a password reset link has been sent."]

IdleReset ==
    [pc |-> "idle", token |-> NULL, new_password |-> NULL, at |-> NULL,
     claimed |-> NULL, user_id |-> NULL, sibs |-> {}, sib_at |-> NULL,
     result |-> NULL]

\* The reset_password calls whose storage transaction is open with row locks.
InTx == {"user", "siblings", "commit"}

\* The token rows call k has written in its open transaction.
TokenLocks(k) ==
    IF resets[k].pc \in InTx THEN {resets[k].claimed} \cup resets[k].sibs ELSE {}

\* The users rows call k has written in its open transaction.
UserLocks(k) ==
    IF resets[k].pc \in {"siblings", "commit"} THEN {resets[k].user_id} ELSE {}

LockedTokens == UNION {TokenLocks(k) : k \in ResetCalls}

\* request_password_reset, up to the first UPDATE: look the user up; for an
\* active user generate the token and bind the expiry and the invalidation time.
RequestLookup(r, email) ==
    /\ requests[r].pc = "idle"
    /\ IF r = 1 THEN TRUE ELSE requests[r - 1].pc # "idle"
    /\ IF ActiveUsers(email) = {}
       THEN /\ requests' = [requests EXCEPT ![r] =
                    [IdleRequest EXCEPT !.pc = "done", !.email = email,
                                        !.result = no_such_user]]
            /\ UNCHANGED nextToken
       ELSE \E u \in ActiveUsers(email) :
            /\ requests' = [requests EXCEPT ![r] =
                    [IdleRequest EXCEPT !.pc = "invalidate", !.email = email,
                                        !.user_id = u, !.raw = nextToken,
                                        !.expires_at = now + ResetTtlHours,
                                        !.used_at = now]]
            /\ nextToken' = nextToken + 1
    /\ UNCHANGED <<now, moneyVars, identityVars, accountVars, users, tokens, resets, platformVars>>

\* UPDATE password_reset_tokens SET used_at = $1
\* WHERE user_id = $2 AND used_at IS NULL
InvalidatePrevious(T, user_id, used_at) ==
    [id \in DOMAIN T |->
        IF T[id].user_id = user_id /\ T[id].used_at = NoTime
        THEN [T[id] EXCEPT !.used_at = used_at]
        ELSE T[id]]

\* request_password_reset: invalidate all previous tokens of the user.
RequestInvalidate(r) ==
    /\ requests[r].pc = "invalidate"
    /\ \A id \in DOMAIN tokens :
         (tokens[id].user_id = requests[r].user_id /\ tokens[id].used_at = NoTime)
            => id \notin LockedTokens
    /\ tokens' = InvalidatePrevious(tokens, requests[r].user_id, requests[r].used_at)
    /\ requests' = [requests EXCEPT ![r].pc = "insert"]
    /\ UNCHANGED <<now, moneyVars, identityVars, accountVars, users, nextToken, resets, platformVars>>

\* request_password_reset: store the new token, try to mail it and answer.
RequestInsert(r, mail) ==
    /\ requests[r].pc = "insert"
    /\ tokens' = (requests[r].raw :>
                    [id |-> requests[r].raw, user_id |-> requests[r].user_id,
                     token_hash |-> token_hash(requests[r].raw),
                     expires_at |-> requests[r].expires_at, used_at |-> NoTime])
                 @@ tokens
    /\ requests' = [requests EXCEPT ![r].pc = "done", ![r].mail = mail,
                                    ![r].result = reset_requested(mail)]
    /\ UNCHANGED <<now, moneyVars, identityVars, accountVars, users, nextToken, resets, platformVars>>

\* reset_password up to the claim: hash the token, check the password
\* length, open the transaction and bind the claim's $1. A client presents a
\* token that was mailed to someone, or a string that never was a token.
ResetBegin(k, token, new_password) ==
    /\ resets[k].pc = "idle"
    /\ token \in DOMAIN tokens \cup {0}
    /\ IF k = 1 THEN TRUE ELSE resets[k - 1].pc # "idle"
    /\ resets' = [resets EXCEPT ![k] =
            IF Len(new_password) < MinPasswordLen
            THEN [IdleReset EXCEPT !.pc = "done", !.token = token,
                                   !.new_password = new_password,
                                   !.result = WeakPassword]
            ELSE [IdleReset EXCEPT !.pc = "claim", !.token = token,
                                   !.new_password = new_password, !.at = now]]
    /\ UNCHANGED <<now, moneyVars, identityVars, accountVars, users, tokens, nextToken, requests, platformVars>>

\* Mutant of claim_token_sql: the claim does not look at used_at.
ClaimIgnoresUsedAt(row, hash, at) ==
    row.token_hash = hash /\ row.expires_at >= at

\* Mutant of claim_token_sql: the claim does not look at expires_at.
ClaimIgnoresExpiry(row, hash, at) ==
    row.token_hash = hash /\ row.used_at = NoTime

\* claim_token_sql: WHERE token_hash = $2 AND used_at IS NULL AND expires_at >= $1
claim_token_sql(row, hash, at) ==
    row.token_hash = hash /\ row.used_at = NoTime /\ row.expires_at >= at

\* The rows the claim of call k matches.
Claimable(k) ==
    {id \in DOMAIN tokens :
        claim_token_sql(tokens[id], token_hash(resets[k].token), resets[k].at)}

\* reset_password: the claim. It waits while a row it matches is locked, then
\* takes the row or, if none is left, answers BadRequest and drops the transaction.
ResetClaim(k) ==
    /\ resets[k].pc = "claim"
    /\ Claimable(k) \cap LockedTokens = {}
    /\ IF Claimable(k) = {}
       THEN resets' = [resets EXCEPT ![k] =
                [IdleReset EXCEPT !.pc = "done", !.token = resets[k].token,
                                  !.new_password = resets[k].new_password,
                                  !.at = resets[k].at, !.result = InvalidToken]]
       ELSE \E id \in Claimable(k) :
                resets' = [resets EXCEPT ![k].pc = "user", ![k].claimed = id,
                                         ![k].user_id = tokens[id].user_id]
    /\ UNCHANGED <<now, moneyVars, identityVars, accountVars, users, tokens, nextToken, requests, platformVars>>

\* reset_password: UPDATE users SET password_hash = $1 WHERE id = $3, in the
\* transaction; then bind the sibling invalidation's $1.
ResetUpdateUser(k) ==
    /\ resets[k].pc = "user"
    /\ \A j \in ResetCalls \ {k} : resets[k].user_id \notin UserLocks(j)
    /\ resets' = [resets EXCEPT ![k].pc = "siblings", ![k].sib_at = now]
    /\ UNCHANGED <<now, moneyVars, identityVars, accountVars, users, tokens, nextToken, requests, platformVars>>

\* The rows of: WHERE user_id = $2 AND id != $3 AND used_at IS NULL
Siblings(k) ==
    {id \in DOMAIN tokens :
        /\ tokens[id].user_id = resets[k].user_id
        /\ id # resets[k].claimed
        /\ tokens[id].used_at = NoTime}

\* reset_password: invalidate all other reset tokens of the user, in the
\* transaction.
ResetInvalidateSiblings(k) ==
    /\ resets[k].pc = "siblings"
    /\ Siblings(k) \cap LockedTokens = {}
    /\ resets' = [resets EXCEPT ![k].pc = "commit", ![k].sibs = Siblings(k)]
    /\ UNCHANGED <<now, moneyVars, identityVars, accountVars, users, tokens, nextToken, requests, platformVars>>

\* A reset_password call that returned: its request and its response.
ResetDone(k, result) ==
    [IdleReset EXCEPT !.pc = "done", !.token = resets[k].token,
                      !.new_password = resets[k].new_password,
                      !.at = resets[k].at, !.claimed = resets[k].claimed,
                      !.user_id = resets[k].user_id, !.result = result]

\* A reset that leaves the stored password as it was.
password_unchanged(U, user_id, hash) == U

\* UPDATE users SET password_hash = $1, updated_at = $2 WHERE id = $3
update_password(U, user_id, hash) == [U EXCEPT ![user_id].password_hash = hash]

\* reset_password: tx.commit() makes the three writes visible; Ok.
ResetCommit(k) ==
    /\ resets[k].pc = "commit"
    /\ tokens' = [id \in DOMAIN tokens |->
                    IF id = resets[k].claimed
                    THEN [tokens[id] EXCEPT !.used_at = resets[k].at]
                    ELSE IF id \in resets[k].sibs
                    THEN [tokens[id] EXCEPT !.used_at = resets[k].sib_at]
                    ELSE tokens[id]]
    /\ users' = update_password(users, resets[k].user_id,
                                 password_hash(resets[k].new_password))
    /\ resets' = [resets EXCEPT ![k] = ResetDone(k, [ok |-> TRUE])]
    /\ UNCHANGED <<now, moneyVars, identityVars, accountVars, nextToken, requests, platformVars>>

\* Call k waits for a lock that call j holds.
WaitsFor(k, j) ==
    \/ resets[k].pc = "claim" /\ Claimable(k) \cap TokenLocks(j) # {}
    \/ resets[k].pc = "user" /\ resets[k].user_id \in UserLocks(j)
    \/ resets[k].pc = "siblings" /\ Siblings(k) \cap TokenLocks(j) # {}

\* Two transactions wait for each other: PostgreSQL aborts one of them, its
\* statement fails (map_err(|_| AppError::Internal)) and the transaction is
\* dropped, which rolls it back.
ResetDeadlock(k) ==
    /\ \E j \in ResetCalls \ {k} : WaitsFor(k, j) /\ WaitsFor(j, k)
    /\ resets' = [resets EXCEPT ![k] =
            [ResetDone(k, InternalError) EXCEPT !.claimed = NULL]]
    /\ UNCHANGED <<now, moneyVars, identityVars, accountVars, users, tokens, nextToken, requests, platformVars>>

\* The call's task is dropped at a suspension point: the open transaction
\* rolls back.
ResetCancel(k) ==
    /\ resets[k].pc \in {"claim"} \cup InTx
    /\ resets' = [resets EXCEPT ![k] =
            [ResetDone(k, NULL) EXCEPT !.pc = "cancelled", !.claimed = NULL]]
    /\ UNCHANGED <<now, moneyVars, identityVars, accountVars, users, tokens, nextToken, requests, platformVars>>

TickHour ==
    /\ now < MaxHour
    /\ now' = now + 1
    /\ UNCHANGED <<moneyVars, resetVars, identityVars, accountVars, platformVars>>

\* The reset part at rest.
ResetIdle ==
    /\ users = UserRows
    /\ tokens = <<>>
    /\ nextToken = 1
    /\ requests = [r \in ReqCalls |-> IdleRequest]
    /\ resets = [k \in ResetCalls |-> IdleReset]

(***************************************************************************)
(* Users service: businesses, environments, login and sessions.            *)
(***************************************************************************)
MaxLogins == 2
MaxRefreshes == 2
MaxDay == 31

\* Duration::days(30): the life of a session, in days (the clock of the
\* identity part counts days).
SessionDays == 30

RefreshCalls == 1..MaxRefreshes

BusinessIds == {"BizA", "BizB"}

EnvironmentIds == {"EA_sbx", "EA_prod", "EB_sbx", "EB_prod"}

\* The environments table at the start: a sandbox and a production
\* environment per business, both active, as register_business creates them.
EnvironmentRows ==
    [e \in EnvironmentIds |->
        [business_id |-> IF e \in {"EA_sbx", "EA_prod"} THEN "BizA" ELSE "BizB",
         type |-> IF e \in {"EA_sbx", "EB_sbx"} THEN "sandbox" ELSE "production",
         status |-> "active"]]

\* SELECT id, type FROM environments WHERE business_id = $1 AND status = 'active'
ActiveEnvironments(business_id) ==
    {e \in DOMAIN environments : /\ environments[e].business_id = business_id
                            /\ environments[e].status = "active"}

\* Argon2 verify_password against the stored hash.
verify_password(pw, hash) == hash = password_hash(pw)

Unauthorized == [ok |-> FALSE, err |-> "Unauthorized", msg |-> ""]

Forbidden == [ok |-> FALSE, err |-> "Forbidden", msg |-> ""]

\* The environment login selects: the requested one if it is among the
\* business's environments, else the sandbox one, else the first.
selected_environment_id(business_id, requested) ==
    LET available == ActiveEnvironments(business_id)
        sandbox == {e \in available : environments[e].type = "sandbox"}
    IN  IF requested # NULL /\ requested \in available THEN requested
        ELSE IF sandbox # {} THEN CHOOSE e \in sandbox : TRUE
        ELSE CHOOSE e \in available : environments[e].type = "production"

\* The id of the next session row; its random refresh token and jwt id are
\* named after it.
FreshSession == Cardinality(DOMAIN sessions) + 1

SessionRow(user_id, environment_id, token, at) ==
    [user_id |-> user_id, environment_id |-> environment_id,
     refresh_token |-> token, jwt_id |-> token, status |-> "active",
     created_at |-> at, expires_at |-> at + SessionDays, revoked_at |-> NoTime]

\* The claims login and refresh_token sign into the bearer token.
Jwt(user_id, jwt_id, environment_id, business_id) ==
    [sub |-> user_id, jti |-> jwt_id, env |-> environment_id,
     business_id |-> business_id]

IdleAuth == [op |-> "none", req |-> [nothing |-> TRUE], result |-> [ok |-> TRUE]]

LoginsDone ==
    Cardinality(DOMAIN sessions)
      - Cardinality({k \in RefreshCalls : refreshes[k].pc = "done" /\ refreshes[k].result.ok})

\* POST /auth/login.
Login(email, password, requested) ==
    LET rows == {u \in DOMAIN users : users[u].email = email /\ users[u].status = "active"}
        first == CHOOSE u \in rows : TRUE
        business_id == users[first].business_id
        env == selected_environment_id(business_id, requested)
        found == {u \in rows : users[u].environment_id = env}
        user_id == CHOOSE u \in found : TRUE
        id == FreshSession
        result ==
            IF rows = {} THEN Unauthorized
            ELSE IF ~verify_password(password, users[first].password_hash) THEN Unauthorized
            ELSE IF ActiveEnvironments(business_id) = {} THEN Unauthorized
            ELSE IF found = {} THEN Unauthorized
            ELSE [ok |-> TRUE, refresh_token |-> id,
                  access_token |-> Jwt(user_id, id, env, business_id),
                  selected_environment_id |-> env]
    IN  /\ LoginsDone < MaxLogins
        /\ authOut' = [op |-> "login",
                       req |-> [email |-> email, password |-> password,
                                environment_id |-> requested],
                       result |-> result]
        /\ IF result.ok
           THEN /\ sessions' = (id :> SessionRow(user_id, env, id, now)) @@ sessions
                /\ jwts' = jwts \cup {result.access_token}
           ELSE UNCHANGED <<sessions, jwts>>
        /\ UNCHANGED <<now, moneyVars, resetVars, refreshes, apiKeys, accountVars, platformVars>>

IdleRefresh ==
    [pc |-> "idle", token |-> 0, session |-> 0, at |-> NoTime, result |-> [ok |-> TRUE]]

\* SELECT ... FROM user_sessions WHERE refresh_token = $1
SessionByToken(token) == {s \in DOMAIN sessions : sessions[s].refresh_token = token}

\* The refresh tokens a client may present: the issued ones and one never issued.
RefreshTokens == 0..(MaxLogins + MaxRefreshes)

\* The session rows an open refresh transaction has written and still locks.
LockedSessions == {refreshes[k].session : k \in {j \in RefreshCalls : refreshes[j].pc = "commit"}}

\* A check that looks at the expiry alone.
RejectsExpiredOnly(row, at) == row.expires_at < at

\* if status != "active" || expires_at < Utc::now() { return Err(Unauthorized) }
SessionRejected(row, at) == row.status # "active" \/ row.expires_at < at

\* refresh_token, step 1: look the session up and check it.
RefreshSelect(k, token) ==
    LET found == SessionByToken(token)
        s == CHOOSE x \in found : TRUE
    IN  /\ refreshes[k].pc = "idle"
        /\ token \in DOMAIN sessions \cup {0}
        /\ refreshes' = [refreshes EXCEPT ![k] =
             IF found = {}
             THEN [IdleRefresh EXCEPT !.pc = "done", !.token = token, !.at = now,
                                      !.result = Unauthorized]
             ELSE IF SessionRejected(sessions[s], now)
             THEN [IdleRefresh EXCEPT !.pc = "done", !.token = token, !.session = s,
                                      !.at = now, !.result = Unauthorized]
             ELSE [IdleRefresh EXCEPT !.pc = "update", !.token = token, !.session = s,
                                      !.at = now]]
        /\ UNCHANGED <<now, moneyVars, resetVars, sessions, jwts, apiKeys, authOut,
                       accountVars, platformVars>>

\* refresh_token, step 2: begin; UPDATE user_sessions SET status = 'revoked',
\* revoked_at = $1 WHERE id = $2. The statement waits while another open
\* transaction holds the row.
RefreshUpdate(k) ==
    /\ refreshes[k].pc = "update"
    /\ refreshes[k].session \notin LockedSessions
    /\ refreshes' = [refreshes EXCEPT ![k].pc = "commit"]
    /\ UNCHANGED <<now, moneyVars, resetVars, sessions, jwts, apiKeys, authOut,
                   accountVars, platformVars>>

\* Rotation that leaves the old session as it was.
RotationKeepsOldSession(T, id, at) == T

\* UPDATE user_sessions SET status = 'revoked', revoked_at = $1 WHERE id = $2
revoke_session(T, id, at) ==
    [T EXCEPT ![id].status = "revoked", ![id].revoked_at = at]

\* refresh_token, step 3: INSERT the new session and commit; both writes
\* become visible together.
RefreshCommit(k) ==
    LET r == refreshes[k]
        old == sessions[r.session]
        id == FreshSession
    IN  /\ r.pc = "commit"
        /\ sessions' = (id :> SessionRow(old.user_id, old.environment_id, id, r.at))
                         @@ revoke_session(sessions, r.session, r.at)
        /\ jwts' = jwts \cup {Jwt(old.user_id, id, old.environment_id,
                                  users[old.user_id].business_id)}
        /\ refreshes' = [refreshes EXCEPT ![k].pc = "done",
                           ![k].result = [ok |-> TRUE, refresh_token |-> id]]
        /\ UNCHANGED <<now, moneyVars, resetVars, apiKeys, authOut, accountVars, platformVars>>

\* The connection is lost inside the transaction: it rolls back, nothing lands.
RefreshCancel(k) ==
    /\ refreshes[k].pc = "commit"
    /\ refreshes' = [refreshes EXCEPT ![k].pc = "done", ![k].result = InternalError]
    /\ UNCHANGED <<now, moneyVars, resetVars, sessions, jwts, apiKeys, authOut,
                   accountVars, platformVars>>

\* POST /auth/revoke: UPDATE user_sessions SET status = 'revoked', revoked_at
\* = $1 WHERE refresh_token = $2 AND status = 'active'. The statement waits
\* while an open transaction holds the row, then re-checks its WHERE clause.
RevokeToken(token) ==
    LET hit == {s \in SessionByToken(token) : sessions[s].status = "active"}
    IN  /\ token \in DOMAIN sessions \cup {0}
        /\ hit \cap LockedSessions = {}
        /\ sessions' = [s \in DOMAIN sessions |->
                          IF s \in hit THEN revoke_session(sessions, s, now)[s]
                          ELSE sessions[s]]
        /\ authOut' = [op |-> "revoke_token", req |-> [refresh_token |-> token],
                       result |-> IF hit = {}
                                  THEN BadRequest("Token not found or already revoked")
                                  ELSE [ok |-> TRUE]]
        /\ UNCHANGED <<now, moneyVars, resetVars, jwts, refreshes, apiKeys, accountVars, platformVars>>

\* Time passes up to the next instant at which a session expires, or just
\* beyond it.
TickDay ==
    /\ \E s \in DOMAIN sessions : \E d \in {0, 1} :
         /\ sessions[s].expires_at + d > now
         /\ sessions[s].expires_at + d <= MaxDay
         /\ now' = sessions[s].expires_at + d
    /\ UNCHANGED <<moneyVars, resetVars, identityVars, accountVars, platformVars>>


\* The identity part at rest: nobody is logged in and no API key exists.
IdentityIdle ==
    /\ sessions = <<>>
    /\ jwts = {}
    /\ refreshes = [k \in RefreshCalls |-> IdleRefresh]
    /\ apiKeys = <<>>
    /\ authOut = IdleAuth


(***************************************************************************)
(* Accounts service: account status and environment resolution.            *)
(***************************************************************************)
MaxStatusCalls == 2

StatusCalls == 1..MaxStatusCalls

IdleStatus == [pc |-> "idle", id |-> NULL, status |-> NULL, result |-> [ok |-> TRUE]]

IdleEnv == [op |-> "none"]

\* The account administration part at rest.
AccountIdle ==
    /\ statusCalls = [c \in StatusCalls |-> IdleStatus]
    /\ envOut = IdleEnv


(***************************************************************************)
(* Users service: API keys and the AuthContext extractor.                  *)
(***************************************************************************)
MaxKeys == 1

KeyIds == 1..MaxKeys

\* api_key_id: None in an AuthContext.
NoKey == 0

\* The plaintext create_api_key returns for the n-th key (32 random bytes).
KeyPlain == <<"k1", "k2", "k3">>

\* HMAC-SHA256 of the plaintext, hex-encoded.
hash_api_key(api_key_plain) == <<"hmac", api_key_plain>>

\* The strings Uuid::parse_str accepts: the environments' ids and one id that
\* no environment has.
Uuids == EnvironmentIds \cup {"E_none"}

\* A header value as the extractor reads it: trimmed, and absent when empty.
TrimHeader(v) == IF v = NULL THEN NULL ELSE IF Trim(v) = "" THEN NULL ELSE Trim(v)

NoAuthorization == [kind |-> "none"]

\* An Authorization header that does not start with "Bearer ".
BasicAuthorization == [kind |-> "basic"]

\* A bearer token that does not decode: bad signature, malformed or expired.
GarbageBearer == [kind |-> "bearer", signed |-> FALSE]

\* A bearer token login or refresh_token minted, still within its 15 minutes.
Bearer(claims) == [kind |-> "bearer", signed |-> TRUE, claims |-> claims]

Headers(env_id, env, api_key, authorization) ==
    [env_id |-> env_id, env |-> env, api_key |-> api_key,
     authorization |-> authorization]

AuthOk(user_id, api_key_id, business_id, environment_id) ==
    [ok |-> TRUE,
     ctx |-> [user_id |-> user_id, api_key_id |-> api_key_id,
              business_id |-> business_id, environment_id |-> environment_id]]

\* SELECT ... FROM api_keys k WHERE k.key_hash = $1
KeyByHash(hash) == {k \in DOMAIN apiKeys : apiKeys[k].key_hash = hash}

\* A key check that looks at nothing.
KeyNeverRejected(rec) == FALSE

\* if status != "active" || revoked_at.is_some() { return Err(Unauthorized) }
KeyRejected(rec) == rec.status # "active" \/ rec.revoked_at # NoTime

\* An environment check that lets every id through.
AnyEnvironment(environment_id, business_id) == TRUE

\* SELECT 1 FROM environments WHERE id = $1 AND business_id = $2 AND status = 'active'
env_ok(environment_id, business_id) ==
    /\ environment_id \in DOMAIN environments
    /\ environment_id \in ActiveEnvironments(business_id)

\* The API-key branch of the extractor.
ApiKeyAuth(api_key_plain, env_id, env) ==
    LET found == KeyByHash(hash_api_key(api_key_plain))
        k == CHOOSE x \in found : TRUE
        rec == apiKeys[k]
        by_type == {e \in ActiveEnvironments(rec.business_id) :
                        environments[e].type = env}
        environment_id == IF env_id # NULL THEN env_id ELSE CHOOSE e \in by_type : TRUE
    IN  IF found = {} THEN Unauthorized
        ELSE IF KeyRejected(rec) THEN Unauthorized
        ELSE IF env_id = NULL /\ env = NULL
        THEN BadRequest("Missing X-Environment header")
        ELSE IF env_id = NULL /\ env \notin {"sandbox", "production"}
        THEN BadRequest("Invalid X-Environment header: must be 'sandbox' or 'production'")
        ELSE IF env_id = NULL /\ by_type = {} THEN Forbidden
        ELSE IF ~env_ok(environment_id, rec.business_id) THEN Forbidden
        ELSE AuthOk(NULL, k, rec.business_id, environment_id)

\* The bearer branch of the extractor. The decoded claims' sub is always a
\* user id, since only login and refresh_token sign tokens.
BearerAuth(authorization, env_id) ==
    LET user_id == authorization.claims.sub
        rec == {u \in DOMAIN users : /\ u = user_id
                                     /\ users[u].environment_id = env_id
                                     /\ users[u].status = "active"}
    IN  IF env_id = NULL THEN BadRequest("Missing X-Environment-Id header")
        ELSE IF authorization.kind = "none" THEN Unauthorized
        ELSE IF authorization.kind # "bearer" THEN Unauthorized
        ELSE IF ~authorization.signed THEN Unauthorized
        ELSE IF rec = {} THEN Forbidden
        ELSE AuthOk(user_id, NoKey, users[user_id].business_id, env_id)

\* AuthContext::from_request_parts: the response to the headers h.
from_request_parts(h) ==
    LET env_id == TrimHeader(h.env_id)
        env == TrimHeader(h.env)
        api_key_plain == TrimHeader(h.api_key)
    IN  IF env_id # NULL /\ env_id \notin Uuids
        THEN BadRequest("Invalid X-Environment-Id header")
        ELSE IF api_key_plain # NULL THEN ApiKeyAuth(api_key_plain, env_id, env)
        ELSE BearerAuth(h.authorization, env_id)

\* UPDATE api_keys SET last_used_at = $1 WHERE id = $2, run by the extractor
\* when an API key authenticated.
Touch(result) ==
    IF result.ok /\ result.ctx.api_key_id # NoKey
    THEN [apiKeys EXCEPT ![result.ctx.api_key_id].last_used_at = now]
    ELSE apiKeys

\* Any endpoint behind the extractor, as far as the extractor goes.
Authenticate(h) ==
    LET result == from_request_parts(h)
    IN  /\ authOut' = [op |-> "authenticate", req |-> [headers |-> h],
                       result |-> result]
        /\ apiKeys' = Touch(result)
        /\ UNCHANGED <<now, moneyVars, resetVars, sessions, jwts, refreshes, accountVars, platformVars>>

\* SELECT role FROM users WHERE id = $1 AND environment_id = $2 AND status =
\* 'active', and the admin check the API-key endpoints share.
AdminCheck(ctx) ==
    IF ctx.user_id = NULL THEN Forbidden
    ELSE IF users[ctx.user_id].environment_id # ctx.environment_id
            \/ users[ctx.user_id].status # "active" THEN Forbidden
    ELSE IF users[ctx.user_id].role # "admin" THEN Forbidden
    ELSE [ok |-> TRUE]

KeyRow(business_id, environment_id, key_hash, created_by_user_id) ==
    [business_id |-> business_id, environment_id |-> environment_id,
     key_hash |-> key_hash, status |-> "active", last_used_at |-> NoTime,
     created_at |-> now, revoked_at |-> NoTime,
     created_by_user_id |-> created_by_user_id]

\* POST /api-keys.
CreateApiKey(h, environment_id) ==
    LET auth == from_request_parts(h)
        ctx == auth.ctx
        id == Cardinality(DOMAIN apiKeys) + 1
        result ==
            IF ~auth.ok THEN auth
            ELSE IF ~AdminCheck(ctx).ok THEN AdminCheck(ctx)
            ELSE IF environment_id # NULL /\ ~env_ok(environment_id, ctx.business_id)
            THEN BadRequest("Invalid environment_id")
            ELSE [ok |-> TRUE, id |-> id, key |-> KeyPlain[id], status |-> "active"]
    IN  /\ Cardinality(DOMAIN apiKeys) < MaxKeys
        /\ authOut' = [op |-> "create_api_key",
                       req |-> [headers |-> h, environment_id |-> environment_id],
                       result |-> result]
        /\ apiKeys' = IF result.ok
                      THEN (id :> KeyRow(ctx.business_id, environment_id,
                                         hash_api_key(KeyPlain[id]), ctx.user_id))
                             @@ Touch(auth)
                      ELSE Touch(auth)
        /\ UNCHANGED <<now, moneyVars, resetVars, sessions, jwts, refreshes, accountVars, platformVars>>

\* POST /api-keys/:id/revoke: UPDATE api_keys SET status = 'revoked',
\* revoked_at = $1 WHERE id = $2 AND business_id = $3 AND status = 'active'
RevokeApiKey(h, api_key_id) ==
    LET auth == from_request_parts(h)
        ctx == auth.ctx
        touched == Touch(auth)
        hit == {k \in DOMAIN touched : /\ k = api_key_id
                                       /\ touched[k].business_id = ctx.business_id
                                       /\ touched[k].status = "active"}
        result ==
            IF ~auth.ok THEN auth
            ELSE IF ~AdminCheck(ctx).ok THEN AdminCheck(ctx)
            ELSE IF hit = {} THEN BadRequest("API key not found or already revoked")
            ELSE [ok |-> TRUE, id |-> api_key_id, key |-> "", status |-> "revoked"]
    IN  /\ authOut' = [op |-> "revoke_api_key",
                       req |-> [headers |-> h, api_key_id |-> api_key_id],
                       result |-> result]
        /\ apiKeys' = IF result.ok
                      THEN [touched EXCEPT ![api_key_id].status = "revoked",
                                           ![api_key_id].revoked_at = now]
                      ELSE touched
        /\ UNCHANGED <<now, moneyVars, resetVars, sessions, jwts, refreshes, accountVars, platformVars>>


AccountStatuses == {"active", "suspended", "closed"}

BusinessLogic(msg) == [ok |-> FALSE, err |-> "BusinessLogic", msg |-> msg]

\* AccountRepository::update_status: UPDATE accounts SET status = $2,
\* updated_at = NOW() WHERE id = $1
account_update_status(A, id, status) == [A EXCEPT ![id].status = status]

\* AccountService::update_account_status, first half: read the account and
\* refuse to reactivate a closed one. close_account is the call with status
\* closed.
StatusRead(c, id, status) ==
    LET found == find_by_id(id)
    IN  /\ statusCalls[c].pc = "idle"
        /\ statusCalls' = [statusCalls EXCEPT ![c] =
             IF ~found.ok
             THEN [IdleStatus EXCEPT !.pc = "done", !.id = id, !.status = status,
                                     !.result = Fail("NotFound")]
             ELSE IF found.account.status = "closed" /\ status # "closed"
             THEN [IdleStatus EXCEPT !.pc = "done", !.id = id, !.status = status,
                     !.result = BusinessLogic("Cannot reactivate a closed account")]
             ELSE [IdleStatus EXCEPT !.pc = "write", !.id = id, !.status = status]]
        /\ UNCHANGED <<now, accounts, txs, nextTxId, calls, wpc, wq, wpost, wres,
                       ledgerFate, resetVars, identityVars, envOut, platformVars>>

\* AccountService::update_account_status, second half: the UPDATE, whatever
\* the row's status has become since it was read.
StatusWrite(c) ==
    /\ statusCalls[c].pc = "write"
    /\ accounts' = account_update_status(accounts, statusCalls[c].id, statusCalls[c].status)
    /\ statusCalls' = [statusCalls EXCEPT ![c].pc = "done"]
    /\ UNCHANGED <<now, txs, nextTxId, calls, wpc, wq, wpost, wres, ledgerFate,
                   resetVars, identityVars, envOut, platformVars>>


MaxCreates == 2

\* The ids of the accounts created while the model runs.
NewAccountIds == <<"N1", "N2", "N3">>

\* Header and field values are strings of characters, so that trimming and
\* case folding act on them as they do in the code.
S_sandbox == <<"s", "a", "n", "d", "b", "o", "x">>

S_production == <<"p", "r", "o", "d", "u", "c", "t", "i", "o", "n">>

S_Production == <<"P", "r", "o", "d", "u", "c", "t", "i", "o", "n">>

S_PRODUCTION == <<"P", "R", "O", "D", "U", "C", "T", "I", "O", "N">>

S_padded == <<" ">> \o S_Production \o <<" ", "\t">>

S_staging == <<"s", "t", "a", "g", "i", "n", "g">>

S_prod == <<"p", "r", "o", "d">>

NoHeader == [present |-> FALSE]

Header(value) == [present |-> TRUE, value |-> value]

\* The X-Environment headers clients send.
EnvironmentHeaders ==
    {NoHeader} \cup {Header(v) : v \in {<<>>, <<" ">>, S_sandbox, S_production,
                                        S_Production, S_PRODUCTION, S_padded,
                                        S_staging, S_prod}}

IsSpace(ch) == ch \in {" ", "\t"}

RECURSIVE trim_start(_)
trim_start(s) ==
    IF s = <<>> THEN s
    ELSE IF IsSpace(Head(s)) THEN trim_start(Tail(s)) ELSE s

RECURSIVE trim_end(_)
trim_end(s) ==
    IF s = <<>> THEN s
    ELSE IF IsSpace(s[Len(s)]) THEN trim_end(SubSeq(s, 1, Len(s) - 1)) ELSE s

\* str::trim
str_trim(s) == trim_end(trim_start(s))

Lowered ==
    [A |-> "a", B |-> "b", C |-> "c", D |-> "d", G |-> "g", I |-> "i", N |-> "n",
     O |-> "o", P |-> "p", R |-> "r", S |-> "s", T |-> "t", U |-> "u", X |-> "x"]

\* str::to_lowercase
to_lowercase(s) ==
    [i \in 1..Len(s) |-> IF s[i] \in DOMAIN Lowered THEN Lowered[s[i]] ELSE s[i]]

\* The environment column value a string of characters spells.
EnvironmentName(s) ==
    IF s = S_sandbox THEN "sandbox"
    ELSE IF s = S_production THEN "production" ELSE "other"

\* handlers::extract_environment: the header trimmed and lower-cased if that
\* is sandbox or production, else sandbox.
extract_environment(header) ==
    IF ~header.present THEN "sandbox"
    ELSE LET s == to_lowercase(str_trim(header.value))
         IN  IF s = S_sandbox \/ s = S_production THEN EnvironmentName(s)
             ELSE "sandbox"

\* The environment field of a JSON body: absent, null, or a string.
BodyEnvironments ==
    {[kind |-> "absent"], [kind |-> "null"],
     [kind |-> "value", value |-> "production"],
     [kind |-> "value", value |-> "sandbox"]}

\* #[serde(default = "default_environment")]: Some("production") when the
\* field is absent.
default_environment == "production"

\* CreateAccountRequest.environment after deserialisation.
deserialize_environment(body) ==
    IF body.kind = "absent" THEN default_environment
    ELSE IF body.kind = "null" THEN NULL
    ELSE body.value

\* A handler that leaves the deserialised environment in the request.
KeepsBodyEnvironment(request_environment, header_environment) ==
    request_environment

\* request.environment = Some(environment): the header value overrides
\* whatever deserialisation put there.
override_environment(request_environment, header_environment) ==
    header_environment

\* request.environment.unwrap_or_else(|| "sandbox")
service_environment(request_environment) ==
    IF request_environment = NULL THEN "sandbox" ELSE request_environment

\* AccountRepository::create: the new accounts row.
CreatedAccount(environment) ==
    [organization_id |-> "O1", currency |-> "USD", environment |-> environment,
     status |-> "active"]

NextAccountId == NewAccountIds[Cardinality(DOMAIN accounts \ AccountIds) + 1]

\* POST /accounts.
CreateAccountHttp(header, body) ==
    LET request_environment ==
            override_environment(deserialize_environment(body),
                                 extract_environment(header))
        environment == service_environment(request_environment)
        id == NextAccountId
    IN  /\ Cardinality(DOMAIN accounts \ AccountIds) < MaxCreates
        /\ accounts' = (id :> CreatedAccount(environment)) @@ accounts
        /\ envOut' = [op |-> "http", header |-> header, body |-> body,
                      id |-> id, environment |-> environment]
        /\ UNCHANGED <<now, txs, nextTxId, calls, wpc, wq, wpost, wres, ledgerFate,
                       resetVars, identityVars, statusCalls, platformVars>>

\* The environment types create_user may read from the environments table,
\* and spellings the table does not hold.
EnvironmentTypes == {S_sandbox, S_production, S_Production, S_staging}

\* The proto Environment values: unspecified, sandbox, production.
ProtoUnspecified == 0
ProtoSandbox == 1
ProtoProduction == 2

\* GrpcClients::create_default_account: the proto enum for the user's
\* environment type; an unknown type goes out as Sandbox.
env_enum(environment) ==
    LET s == to_lowercase(environment)
    IN  IF s = S_sandbox THEN ProtoSandbox
        ELSE IF s = S_production THEN ProtoProduction
        ELSE ProtoSandbox

\* AccountsGrpcService::create_default_account: the environment column value
\* for the proto enum, or invalid_argument.
proto_environment(p) ==
    IF p = ProtoSandbox THEN [ok |-> TRUE, environment |-> "sandbox"]
    ELSE IF p = ProtoProduction THEN [ok |-> TRUE, environment |-> "production"]
    ELSE [ok |-> FALSE, err |-> "invalid_argument"]

\* The Accounts side of the RPC, for any proto value a client may send.
CreateDefaultAccount(type, p) ==
    LET resolved == proto_environment(p)
        id == NextAccountId
    IN  /\ Cardinality(DOMAIN accounts \ AccountIds) < MaxCreates
        /\ IF resolved.ok
           THEN /\ accounts' = (id :> CreatedAccount(
                                   service_environment(resolved.environment)))
                                 @@ accounts
                /\ envOut' = [op |-> "rpc", type |-> type, proto |-> p, id |-> id,
                              environment |-> service_environment(resolved.environment)]
           ELSE /\ accounts' = accounts
                /\ envOut' = [op |-> "rpc", type |-> type, proto |-> p, id |-> NULL,
                              environment |-> NULL]
        /\ UNCHANGED <<now, txs, nextTxId, calls, wpc, wq, wpost, wres, ledgerFate,
                       resetVars, identityVars, statusCalls, platformVars>>

\* create_user provisioning the default account of a user in an environment
\* of the given type.
CreateAccountRpc(type) == CreateDefaultAccount(type, env_enum(type))


(***************************************************************************)
(* Users service: business registration.                                   *)
(***************************************************************************)
MaxRegs == 2

RegCalls == 1..MaxRegs

\* The businesses table at the start.
BusinessRows == [b \in BusinessIds |-> [name |-> b, status |-> "active"]]

\* Uuid::new_v4() of the k-th registration: the business, its two
\* environments and its admin user.
NewBusinessIds == <<"BizR1", "BizR2", "BizR3">>

NewSandboxIds == <<"ER1_sbx", "ER2_sbx", "ER3_sbx">>

NewProductionIds == <<"ER1_prod", "ER2_prod", "ER3_prod">>

NewAdminIds == <<"UR1", "UR2", "UR3">>

IdleReg ==
    [pc |-> "idle",
     req |-> [name |-> NULL, admin_email |-> NULL, admin_password |-> NULL],
     written |-> {}, result |-> [ok |-> TRUE]]

\* The statements call k has run inside its open transaction.
RegOpen(k) == regs[k].pc \in {"sandbox", "production", "user", "commit"}

\* INSERT INTO businesses (...) VALUES ($1, $2, $3, 'active', ...)
RegBusinessRows(k) ==
    IF "business" \in regs[k].written
    THEN NewBusinessIds[k] :> [name |-> regs[k].req.name, status |-> "active"]
    ELSE <<>>

\* INSERT INTO environments (...) VALUES ($1, $2, $3, 'active', ...), for
\* (sandbox_env_id, "sandbox") and (prod_env_id, "production").
RegEnvironmentRows(k) ==
    LET row(type) == [business_id |-> NewBusinessIds[k], type |-> type,
                      status |-> "active"]
    IN  (IF "sandbox" \in regs[k].written
         THEN NewSandboxIds[k] :> row("sandbox") ELSE <<>>)
        @@ (IF "production" \in regs[k].written
            THEN NewProductionIds[k] :> row("production") ELSE <<>>)

\* INSERT INTO users (...) VALUES ($1, $2, $3, $4, $5, 'admin', 'active', ...):
\* the admin, in the production environment only.
RegUserRows(k) ==
    IF "user" \in regs[k].written
    THEN NewAdminIds[k] :>
            [email |-> regs[k].req.admin_email,
             business_id |-> NewBusinessIds[k],
             environment_id |-> NewProductionIds[k],
             role |-> "admin", status |-> "active",
             password_hash |-> password_hash(regs[k].req.admin_password)]
    ELSE <<>>

\* The unique_email constraint of the users table: a committed row with the
\* e-mail exists.
unique_email(email) == \E u \in DOMAIN users : users[u].email = email

\* Another open transaction has inserted the e-mail and not yet committed:
\* the unique index makes this insert wait for it.
EmailPending(k, email) ==
    \E j \in RegCalls \ {k} :
        /\ RegOpen(j)
        /\ "user" \in regs[j].written
        /\ regs[j].req.admin_email = email

\* A failed transaction whose rows stay in the table.
RollbackKeepsRows(T, rows) == rows @@ T

\* The transaction is dropped without commit: its rows are gone.
rollback(T, rows) == T

\* The same transaction ends in error: all its rows are rolled back.
RegAbort(k, err) ==
    /\ businesses' = rollback(businesses, RegBusinessRows(k))
    /\ environments' = rollback(environments, RegEnvironmentRows(k))
    /\ users' = rollback(users, RegUserRows(k))
    /\ regs' = [regs EXCEPT ![k].pc = "done", ![k].result = err]

\* POST /businesses/register: state.db.begin() and the INSERT of the business.
RegisterBegin(k, req) ==
    /\ regs[k].pc = "idle"
    /\ IF k = 1 THEN TRUE ELSE regs[k - 1].pc # "idle"
    /\ regs' = [regs EXCEPT ![k] = [IdleReg EXCEPT !.pc = "sandbox", !.req = req,
                                                   !.written = {"business"}]]
    /\ UNCHANGED <<now, moneyVars, resetVars, identityVars, accountVars,
                   businesses, environments, limitVars, eventVars, stackVars,
                   numberVars>>

\* The first round of the loop: the sandbox environment.
RegisterSandbox(k) ==
    /\ regs[k].pc = "sandbox"
    /\ regs' = [regs EXCEPT ![k].pc = "production",
                            ![k].written = @ \cup {"sandbox"}]
    /\ UNCHANGED <<now, moneyVars, resetVars, identityVars, accountVars,
                   businesses, environments, limitVars, eventVars, stackVars,
                   numberVars>>

\* The second round of the loop: the production environment.
RegisterProduction(k) ==
    /\ regs[k].pc = "production"
    /\ regs' = [regs EXCEPT ![k].pc = "user",
                            ![k].written = @ \cup {"production"}]
    /\ UNCHANGED <<now, moneyVars, resetVars, identityVars, accountVars,
                   businesses, environments, limitVars, eventVars, stackVars,
                   numberVars>>

\* The INSERT of the admin user: refused with "Email already exists" when the
\* e-mail is taken, which ends the transaction.
RegisterUser(k) ==
    /\ regs[k].pc = "user"
    /\ ~EmailPending(k, regs[k].req.admin_email)
    /\ IF unique_email(regs[k].req.admin_email)
       THEN /\ RegAbort(k, BadRequest("Email already exists"))
            /\ UNCHANGED <<now, moneyVars, tokens, nextToken, requests, resets,
                           identityVars, accountVars, limitVars,
                   eventVars, stackVars, numberVars>>
       ELSE /\ regs' = [regs EXCEPT ![k].pc = "commit",
                                    ![k].written = @ \cup {"user"}]
            /\ UNCHANGED <<now, moneyVars, resetVars, identityVars, accountVars,
                           businesses, environments, limitVars, eventVars,
                           stackVars, numberVars>>

\* tx.commit() and the response.
RegisterCommit(k) ==
    /\ regs[k].pc = "commit"
    /\ businesses' = RegBusinessRows(k) @@ businesses
    /\ environments' = RegEnvironmentRows(k) @@ environments
    /\ users' = RegUserRows(k) @@ users
    /\ regs' = [regs EXCEPT ![k].pc = "done",
            ![k].result =
                [ok |-> TRUE, business_id |-> NewBusinessIds[k],
                 admin_user_id |-> NewAdminIds[k],
                 environments |->
                    <<[id |-> NewSandboxIds[k], type |-> "sandbox"],
                      [id |-> NewProductionIds[k], type |-> "production"]>>]]
    /\ UNCHANGED <<now, moneyVars, tokens, nextToken, requests, resets,
                   identityVars, accountVars, limitVars,
                   eventVars, stackVars, numberVars>>

\* Any statement of the transaction, or the commit, returns a database
\* error: map_err(|_| AppError::Internal)? drops the transaction.
RegisterFail(k) ==
    /\ RegOpen(k)
    /\ RegAbort(k, InternalError)
    /\ UNCHANGED <<now, moneyVars, tokens, nextToken, requests, resets,
                   identityVars, accountVars, limitVars,
                   eventVars, stackVars, numberVars>>

\* The registration part at rest.
PlatformIdle ==
    /\ businesses = BusinessRows
    /\ environments = EnvironmentRows
    /\ regs = [k \in RegCalls |-> IdleReg]


(***************************************************************************)
(* Users service: GET /me and POST /users.                                 *)
(***************************************************************************)
MaxUsers == 2

\* Uuid::new_v4() of the users create_user inserts.
NewUserIds == <<"UC1", "UC2", "UC3">>

\* The active users rows with the given id that satisfy P.
UserRowsWhere(user_id, P(_)) ==
    {u \in DOMAIN users : u = user_id /\ users[u].status = "active" /\ P(users[u])}

\* routes::user::me, after the extractor produced ctx.
me(ctx) ==
    LET user_id == ctx.user_id
        InEnvironment(row) == row.environment_id = ctx.environment_id
        InBusiness(row) == row.business_id = ctx.business_id
        user_row == UserRowsWhere(user_id, InEnvironment)
        any_user_row == UserRowsWhere(user_id, InBusiness)
        found == IF user_row # {} THEN user_row ELSE any_user_row
        u == CHOOSE x \in found : TRUE
    IN  IF user_id = NULL THEN Forbidden
        ELSE IF user_row = {} /\ any_user_row # {}
                /\ ~env_ok(ctx.environment_id, ctx.business_id) THEN Forbidden
        ELSE IF found = {} THEN Forbidden
        ELSE IF ~(/\ ctx.environment_id \in DOMAIN environments
                  /\ environments[ctx.environment_id].status = "active")
        THEN BadRequest("Invalid environment_id")
        ELSE IF ~(/\ users[u].business_id \in DOMAIN businesses
                  /\ businesses[users[u].business_id].status = "active")
        THEN BadRequest("Invalid business_id")
        ELSE [ok |-> TRUE,
              user |-> [id |-> u, business_id |-> users[u].business_id,
                        environment_id |-> users[u].environment_id,
                        email |-> users[u].email, role |-> users[u].role],
              business |-> [id |-> users[u].business_id],
              environment |-> [id |-> ctx.environment_id,
                               business_id |->
                                   environments[ctx.environment_id].business_id,
                               type |-> environments[ctx.environment_id].type]]

\* GET /me: the extractor, then the handler.
Me(h) ==
    LET auth == from_request_parts(h)
        result == IF ~auth.ok THEN auth ELSE me(auth.ctx)
    IN  /\ authOut' = [op |-> "me", req |-> [headers |-> h], result |-> result]
        /\ apiKeys' = Touch(auth)
        /\ UNCHANGED <<now, moneyVars, resetVars, sessions, jwts, refreshes,
                       accountVars, platformVars>>

\* The outcomes of the create_default_account call to the Accounts service.
RpcOutcomes == {"created", "unavailable"}

\* The type column of an environments row, as the characters the client
\* lower-cases and matches.
TypeChars(type) ==
    IF type = "sandbox" THEN S_sandbox
    ELSE IF type = "production" THEN S_production ELSE S_staging

\* The row create_user inserts.
CreatedUser(ctx, payload) ==
    [email |-> payload.email, business_id |-> ctx.business_id,
     environment_id |-> ctx.environment_id, role |-> "user", status |-> "active",
     password_hash |-> password_hash(payload.password),
     created_by_user_id |-> ctx.user_id,
     created_by_api_key_id |-> ctx.api_key_id]

\* let admin_user_id = created_by_user_id.ok_or_else(BadRequest)?
admin_user_id(ctx) == ctx.user_id

\* routes::user::create_user up to the INSERT: the checks that return
\* before any row is written.
CreateUserChecks(ctx, payload) ==
    IF ctx.api_key_id = NoKey /\ ~AdminCheck(ctx).ok THEN AdminCheck(ctx)
    ELSE IF ~env_ok(ctx.environment_id, ctx.business_id) THEN Forbidden
    ELSE IF unique_email(payload.email) THEN BadRequest("Email already exists")
    ELSE [ok |-> TRUE]

\* routes::user::create_user after the INSERT: the account is provisioned
\* over gRPC for the admin who created the user.
CreateUserProvision(ctx, rpc) ==
    IF admin_user_id(ctx) = NULL
    THEN BadRequest("Customer accounts require an admin user. User must be created by an admin.")
    ELSE IF rpc # "created" THEN BadRequest("gRPC call failed")
    ELSE [ok |-> TRUE]

CreatedUsers == DOMAIN users \cap {NewUserIds[i] : i \in 1..Len(NewUserIds)}

\* POST /users: the extractor, the checks, the INSERT (no transaction around
\* it) and the synchronous create_default_account call.
CreateUser(h, payload, rpc) ==
    LET auth == from_request_parts(h)
        ctx == auth.ctx
        user_id == NewUserIds[Cardinality(CreatedUsers) + 1]
        checks == IF ~auth.ok THEN auth ELSE CreateUserChecks(ctx, payload)
        provision == CreateUserProvision(ctx, rpc)
        type == environments[ctx.environment_id].type
        environment == proto_environment(env_enum(TypeChars(type))).environment
        account_id == NextAccountId
    IN  /\ Cardinality(CreatedUsers) < MaxUsers
        /\ Cardinality(DOMAIN accounts \ AccountIds) < MaxCreates
        /\ apiKeys' = Touch(auth)
        /\ users' = IF checks.ok THEN (user_id :> CreatedUser(ctx, payload)) @@ users
                    ELSE users
        /\ accounts' =
             IF checks.ok /\ provision.ok
             THEN (account_id :>
                     [organization_id |-> ctx.business_id, currency |-> "USD",
                      environment |-> service_environment(environment),
                      status |-> "active", user_id |-> user_id,
                      admin_user_id |-> admin_user_id(ctx)]) @@ accounts
             ELSE accounts
        /\ authOut' = [op |-> "create_user",
                       req |-> [headers |-> h, email |-> payload.email, rpc |-> rpc],
                       result |-> IF ~checks.ok THEN checks
                                  ELSE IF ~provision.ok THEN provision
                                  ELSE [ok |-> TRUE, user_id |-> user_id,
                                        status |-> "active"]]
        /\ UNCHANGED <<now, txs, nextTxId, calls, wpc, wq, wpost, wres, ledgerFate,
                       tokens, nextToken, requests, resets, sessions, jwts,
                       refreshes, accountVars, platformVars>>


(***************************************************************************)
(* Rate limiting (rate_limit.rs): RateLimiter keeps, behind one Mutex, a   *)
(* fixed window per client key.  allow() is taken apart into the steps     *)
(* that the lock makes indivisible: taking the lock and the clock, finding *)
(* the entry and restarting its window, counting the call.                 *)
(***************************************************************************)
MaxAllows == 4

\* RateLimitConfig.max and RateLimitConfig.window (seconds).
LimitMax == 2

LimitWindow == 2

\* The last instant the clock of the limiter reaches.
MaxInstant == 5

AllowCalls == 1..MaxAllows

ClientKeys == {"198.51.100.5", "203.0.113.10"}

NoWindow == [start |-> NoTime, count |-> 0]

IdleAllow ==
    [pc |-> "idle", client_key |-> "NULL", now |-> NoTime, result |-> FALSE]

\* Instant::duration_since: zero when the other instant is later.
duration_since(later, earlier) ==
    IF later >= earlier THEN later - earlier ELSE 0

\* A mutex that never makes a caller wait.
MutexNeverHeld == TRUE

\* Mutex::lock returns only when no other call holds the guard.
MutexAvailable == mutex = 0

\* store.entry(client_key).or_insert(RateLimitWindow { start: now, count: 0 })
or_insert(client_key, at) ==
    IF client_key \in DOMAIN store THEN store
    ELSE (client_key :> [start |-> at, count |-> 0]) @@ store

\* The seconds of the limiter's clock.
TickInstant ==
    /\ now < MaxInstant
    /\ now' = now + 1
    /\ UNCHANGED <<moneyVars, resetVars, identityVars, accountVars, platformVars>>

\* allow(): self.store.lock() and Instant::now().
AllowLock(c, client_key) ==
    /\ allows[c].pc = "idle"
    /\ IF c = 1 THEN TRUE ELSE allows[c - 1].pc # "idle"
    /\ MutexAvailable
    /\ mutex' = c
    /\ allows' = [allows EXCEPT ![c] = [IdleAllow EXCEPT !.pc = "entry",
                                            !.client_key = client_key, !.now = now]]
    /\ UNCHANGED <<now, moneyVars, resetVars, identityVars, accountVars,
                   registryVars, eventVars, store, allowLog, keyLog,
                   stackVars, numberVars>>

\* allow(): the entry of the key, made if missing, and the restart of its
\* window when more than config.window has passed since it started.
AllowEntry(c) ==
    /\ allows[c].pc = "entry"
    /\ LET key == allows[c].client_key
           at == allows[c].now
           found == or_insert(key, at)
       IN store' = IF duration_since(at, found[key].start) > LimitWindow
                   THEN [found EXCEPT ![key] = [start |-> at, count |-> 0]]
                   ELSE found
    /\ allows' = [allows EXCEPT ![c].pc = "count"]
    /\ UNCHANGED <<now, moneyVars, resetVars, identityVars, accountVars,
                   registryVars, eventVars, mutex, allowLog, keyLog,
                   stackVars, numberVars>>

\* allow(): false when the count has reached config.max, otherwise the count
\* goes up by one and the answer is true; the guard is dropped on return.
AllowCount(c) ==
    /\ allows[c].pc = "count"
    /\ LET key == allows[c].client_key
           entry == store[key]
           result == ~(entry.count >= LimitMax)
           counted == IF result THEN [entry EXCEPT !.count = @ + 1] ELSE entry
       IN /\ store' = [store EXCEPT ![key] = counted]
          /\ allows' = [allows EXCEPT ![c].pc = "done", ![c].result = result]
          /\ allowLog' = Append(allowLog,
                [client_key |-> key, now |-> allows[c].now,
                 start |-> counted.start, count |-> counted.count,
                 result |-> result])
    /\ mutex' = 0
    /\ UNCHANGED <<now, moneyVars, resetVars, identityVars, accountVars,
                   registryVars, eventVars, keyLog, stackVars, numberVars>>

\* The limiter at rest: RateLimiter::new.
LimitIdle ==
    /\ store = [k \in {} |-> NoWindow]
    /\ mutex = 0
    /\ allows = [c \in AllowCalls |-> IdleAllow]
    /\ allowLog = << >>


(***************************************************************************)
(* The client key of the rate limiter (rate_limit.rs).  A header value is  *)
(* a sequence of tokens: an address text, a blank " ", a comma ",", or     *)
(* text that is no address.  A header that was not sent and an empty one   *)
(* are both the empty sequence: the code turns either into None.           *)
(***************************************************************************)
\* The texts that parse::<IpAddr>() accepts, with the address they denote
\* as IpAddr::to_string() prints it.
IpTexts ==
    [t \in {"127.0.0.1", "10.0.0.2", "198.51.100.5", "203.0.113.10",
            "203.0.113.77", "2001:DB8::1"} |->
        IF t = "2001:DB8::1" THEN "2001:db8::1" ELSE t]

\* The connections of the model: the address of the TCP peer.
Peers == {"127.0.0.1", "198.51.100.5"}

\* Values of the *_TRUSTED_PROXY_IPS variable: unset, one proxy, two proxies
\* and an entry that is no address.
TrustedProxyEnvs ==
    {<< >>,
     <<"127.0.0.1">>,
     <<"127.0.0.1", ",", " ", "10.0.0.2">>,
     <<"proxy.local", ",", "198.51.100.5">>}

\* Values of X-Forwarded-For.
ForwardedFors ==
    {<< >>,
     <<"203.0.113.10">>,
     <<"203.0.113.77">>,
     <<"203.0.113.10", ",", " ", "127.0.0.1">>,
     <<"203.0.113.10", ",", " ", "198.51.100.5">>,
     <<"203.0.113.77", ",", "203.0.113.10", ",", "10.0.0.2", ",", "127.0.0.1">>,
     <<"10.0.0.2", ",", " ", "127.0.0.1", " ", ",">>,
     <<"203.0.113.10", ",", "unknown", ",", "127.0.0.1">>}

\* Values of X-Real-IP.
RealIps == {<< >>, <<" ", "203.0.113.77">>, <<"2001:DB8::1">>, <<"unknown">>}

\* The requests: a connection, its two headers, whether the extension
\* ConnectInfo<SocketAddr> is attached, and the environment of the process.
ClientRequests ==
    [peer : Peers, x_forwarded_for : ForwardedFors, x_real_ip : RealIps,
     trusted_proxy_env : TrustedProxyEnvs]

RECURSIVE split(_)
\* str::split(','): the pieces between the commas.
split(value) ==
    IF \A i \in 1..Len(value) : value[i] # "," THEN <<value>>
    ELSE LET i == CHOOSE k \in 1..Len(value) :
                      value[k] = "," /\ \A j \in 1..(k - 1) : value[j] # ","
         IN <<SubSeq(value, 1, i - 1)>> \o split(SubSeq(value, i + 1, Len(value)))

RECURSIVE trim(_)
\* str::trim(): without the blanks at both ends.
trim(piece) ==
    IF piece # << >> /\ Head(piece) = " " THEN trim(Tail(piece))
    ELSE IF piece # << >> /\ piece[Len(piece)] = " "
         THEN trim(SubSeq(piece, 1, Len(piece) - 1))
         ELSE piece

\* trimmed.parse::<IpAddr>().ok(), printed: "NULL" is None.
parse_ip(piece) ==
    IF Len(piece) = 1 /\ piece[1] \in DOMAIN IpTexts THEN IpTexts[piece[1]]
    ELSE "NULL"

\* The trimmed, non-empty pieces of a comma-separated value.
pieces(value) ==
    SelectSeq([i \in 1..Len(split(value)) |-> trim(split(value)[i])],
              LAMBDA piece : piece # << >>)

\* trusted_proxy_ips: the entries that parse, the others are skipped.
trusted_proxy_ips(env) ==
    {parse_ip(pieces(env)[i]) : i \in 1..Len(pieces(env))} \ {"NULL"}

\* parse_forwarded_for: the addresses of the header; None (the empty
\* sequence here) when there is none or when one piece is no address.
parse_forwarded_for(req) ==
    LET kept == pieces(req.x_forwarded_for)
    IN IF \E i \in 1..Len(kept) : parse_ip(kept[i]) = "NULL" THEN << >>
       ELSE [i \in 1..Len(kept) |-> parse_ip(kept[i])]

\* extract_real_ip.
extract_real_ip(req) == parse_ip(trim(req.x_real_ip))

\* The first entry that is no trusted proxy, read from the left.
extract_forwarded_ip_from_left(req, peer, trusted_proxies) ==
    LET forwarded_ips == parse_forwarded_for(req)
        last_hop == forwarded_ips[Len(forwarded_ips)]
        others == {i \in 1..Len(forwarded_ips) :
                      forwarded_ips[i] \notin trusted_proxies}
    IN IF forwarded_ips = << >> THEN "NULL"
       ELSE IF last_hop # peer /\ last_hop \notin trusted_proxies THEN "NULL"
       ELSE IF others = {} THEN "NULL"
       ELSE forwarded_ips[CHOOSE i \in others : \A j \in others : j >= i]

\* extract_forwarded_ip: the chain counts only when its last hop is the peer
\* or a trusted proxy; then the first entry from the right that is no trusted
\* proxy.
extract_forwarded_ip(req, peer, trusted_proxies) ==
    LET forwarded_ips == parse_forwarded_for(req)
        last_hop == forwarded_ips[Len(forwarded_ips)]
        others == {i \in 1..Len(forwarded_ips) :
                      forwarded_ips[i] \notin trusted_proxies}
    IN IF forwarded_ips = << >> THEN "NULL"
       ELSE IF last_hop # peer /\ last_hop \notin trusted_proxies THEN "NULL"
       ELSE IF others = {} THEN "NULL"
       ELSE forwarded_ips[CHOOSE i \in others : \A j \in others : j <= i]

\* extract_client_key, for a request with or without the extension
\* ConnectInfo<SocketAddr>.
extract_client_key(req, connect_info) ==
    IF connect_info
    THEN LET trusted_proxies == trusted_proxy_ips(req.trusted_proxy_env)
             forwarded_ip == extract_forwarded_ip(req, req.peer, trusted_proxies)
             real_ip == extract_real_ip(req)
         IN IF req.peer \in trusted_proxies /\ forwarded_ip # "NULL"
            THEN forwarded_ip
            ELSE IF req.peer \in trusted_proxies /\ real_ip # "NULL"
                 THEN real_ip
                 ELSE req.peer
    ELSE IF extract_real_ip(req) # "NULL" THEN extract_real_ip(req)
         ELSE "unknown"

\* The requests the model keeps side by side.
MaxKeyed == 2

\* What the middleware learns of a request: extract_client_key on the
\* request with the extensions its service gave it.
keyed(req, connect_info) ==
    [req |-> req, connect_info |-> connect_info,
     key |-> extract_client_key(req, connect_info)]

\* A request as both services serve it: axum::serve(listener,
\* app.into_make_service()) attaches no ConnectInfo to the request.
KeyAsServed(req) ==
    /\ Cardinality(keyLog) < MaxKeyed
    /\ keyLog' = keyLog \cup {keyed(req, FALSE)}
    /\ UNCHANGED <<now, moneyVars, resetVars, identityVars, accountVars,
                   registryVars, eventVars, store, mutex, allows, allowLog,
                   stackVars, numberVars>>

\* A request that carries ConnectInfo(peer), as the tests of the middleware
\* build it.
KeyWithConnectInfo(req) ==
    /\ Cardinality(keyLog) < MaxKeyed
    /\ keyLog' = keyLog \cup {keyed(req, TRUE)}
    /\ UNCHANGED <<now, moneyVars, resetVars, identityVars, accountVars,
                   registryVars, eventVars, store, mutex, allows, allowLog,
                   stackVars, numberVars>>

\* The middleware has keyed no request yet.
KeyIdle == keyLog = {}

(***************************************************************************)
(* Accounts service: the consumer of users.user.created (nats/mod.rs).     *)
(* The stream delivers a message until it is acknowledged, at most         *)
(* max_deliver times; the consumer handles one delivery at a time.         *)
(***************************************************************************)
MaxEvents == 2

\* consumer::push::Config.max_deliver
max_deliver == 5

EventIds == 1..MaxEvents

\* The user each message of the stream is about.
EventUserIds == <<"UE1", "UE2", "UE3">>

\* UserCreatedEvent.role: absent, a customer, an admin.
EventRoles == {NULL, "CUSTOMER", "ADMIN"}

\* How a delivery goes: create_account fails, the publish of
\* account.created fails, the ack fails or is lost, or all three succeed.
DeliveryOutcomes == {"create_failed", "publish_failed", "ack_failed", "acked"}

IdleEvent ==
    [state |-> "unpublished", user_id |-> NULL, role |-> NULL,
     environment |-> NULL, delivered |-> 0, outcome |-> NULL]

\* event.role.as_deref().unwrap_or("CUSTOMER")
user_role(event) == IF event.role = NULL THEN "CUSTOMER" ELSE event.role

\* The stream delivers message e again: it was not acknowledged and
\* max_deliver is not used up.
Deliverable(e) ==
    events[e].state = "pending" /\ events[e].delivered < max_deliver

\* The message is acknowledged before it is processed.
acked_before(outcome) == outcome # "ack_failed"

\* message.ack() comes last: it is reached when nothing before it returned
\* an error, and it can fail itself.
acked_after(outcome) == outcome = "acked"

\* A users.user.created message enters the stream.
UserCreated(e, role) ==
    /\ events[e].state = "unpublished"
    /\ IF e = 1 THEN TRUE ELSE events[e - 1].state # "unpublished"
    /\ events' = [events EXCEPT ![e] =
            [IdleEvent EXCEPT !.state = "pending", !.user_id = EventUserIds[e],
                              !.role = role, !.environment = "sandbox"]]
    /\ UNCHANGED <<now, moneyVars, resetVars, identityVars, accountVars,
                   registryVars, limitVars, published, stackVars, numberVars>>

\* process_user_created_event for one delivery of message e.  Another role
\* than CUSTOMER is acknowledged without an account.  For a customer it calls
\* create_account, publishes account.created and acknowledges; an error of
\* the first two returns before the ack, an error of the ack is logged.
ProcessUserCreated(e, outcome) ==
    LET event == events[e]
        customer == user_role(event) = "CUSTOMER"
        account_id == NextAccountId
        created == customer /\ outcome # "create_failed"
        announced == created /\ outcome # "publish_failed"
        acked == acked_after(outcome)
    IN  /\ Deliverable(e)
        /\ customer \/ outcome \in {"ack_failed", "acked"}
        /\ created => Cardinality(DOMAIN accounts \ AccountIds) < MaxCreates
        /\ accounts' =
             IF created
             THEN (account_id :>
                     [organization_id |-> "O1", currency |-> "USD",
                      account_type |-> "checking",
                      environment |-> service_environment(event.environment),
                      status |-> "active", user_id |-> event.user_id,
                      admin_user_id |-> NULL]) @@ accounts
             ELSE accounts
        /\ published' =
             IF announced
             THEN Append(published, [account_id |-> account_id,
                                     user_id |-> event.user_id,
                                     saga_correlation_id |-> e])
             ELSE published
        /\ events' = [events EXCEPT ![e].delivered = @ + 1,
                                    ![e].outcome = outcome,
                                    ![e].state = IF acked THEN "acked" ELSE @]
        /\ UNCHANGED <<now, txs, nextTxId, calls, wpc, wq, wpost, wres, ledgerFate,
                       resetVars, identityVars, accountVars, registryVars,
                       limitVars, stackVars, numberVars>>

\* No message is in the stream and nothing was published.
EventIdle ==
    /\ events = [e \in EventIds |-> IdleEvent]
    /\ published = << >>


(***************************************************************************)
(* The middleware stacks of the two HTTP services (users routes/mod.rs,    *)
(* accounts routes/api.rs).  Router::layer wraps what was built so far, so *)
(* the layer added last sees a request first.  A path is the sequence of   *)
(* its segments; header values are token sequences as above, the empty     *)
(* sequence for a header that was not sent.                                *)
(***************************************************************************)
MaxServed == 2

\* Uuid::new_v4() of the correlation ids the middleware makes up.
NewCorrelationIds == <<"corr-1", "corr-2", "corr-3">>

\* Paths of the Users service.
P_login == <<"api", "v1", "auth", "login">>

P_register == <<"api", "v1", "business", "register">>

P_me == <<"api", "v1", "me">>

P_health == <<"health">>

\* Paths of the Accounts service.
P_deposit == <<"api", "v1", "accounts", "A1", "deposit">>

P_withdraw == <<"api", "v1", "accounts", "A1", "withdraw">>

\* Values of x-correlation-id.
CorrelationHeaders == {<< >>, <<" ">>, <<"req-7">>, <<" ", "req-7", " ">>}

\* Values of x-internal-service-token.
InternalTokens == {<< >>, <<"tok-1">>, <<"tok-9">>}

\* Values of INTERNAL_SERVICE_TOKEN_ALLOWLIST.
Allowlists == {<< >>, <<"tok-1", ",", " ", "tok-2">>}

\* The statuses a handler answers with.
HandlerStatuses == {200, 400, 500}

\* The response a handler or a middleware builds, with no correlation header.
Respond(status) == [status |-> status, x_correlation_id |-> << >>]

\* AppError::UnrecognizedSource.into_response()
UnrecognizedSource == Respond(403)

\* AppError::TooManyRequests.into_response()
TooManyRequests == Respond(429)

\* path.starts_with("/api/")
starts_with_api(path) == Len(path) >= 2 /\ path[1] = "api"

\* The handler behind the Users routes: auth_rate_limit_middleware in front
\* of login, password reset and the beta form, then the handler.
users_routes(req) ==
    IF req.path = P_login /\ ~req.allow THEN TooManyRequests
    ELSE Respond(req.status)

\* The handler behind the Accounts routes: money_rate_limit_middleware in
\* front of deposit and transfer, then the handler.
accounts_routes(req) ==
    IF req.path = P_deposit /\ ~req.allow THEN TooManyRequests
    ELSE Respond(req.status)

\* correlation_id_middleware around `next`: outside /api/ the inner response
\* as it is; otherwise the trimmed id of the request, or a new one, is put
\* on the inner response.
correlation_id_middleware(req, inner, fresh) ==
    LET existing == trim(req.x_correlation_id)
        correlation_id == IF existing # << >> THEN existing ELSE <<fresh>>
    IN IF ~starts_with_api(req.path) THEN inner
       ELSE [inner EXCEPT !.x_correlation_id = correlation_id]

\* A guard that lets every caller through.
internal_caller_open(req, inner) == inner

\* internal_caller_middleware around `next`: login and registration need a
\* token of the allow-list when the list is not empty.
internal_caller_middleware(req, inner) ==
    LET is_sensitive == req.path \in {P_login, P_register}
        provided_token == trim(req.x_internal_service_token)
        allowed_tokens == pieces(req.allowlist)
    IN IF ~is_sensitive THEN inner
       ELSE IF allowed_tokens = << >> THEN inner
       ELSE IF provided_token = << >>
               \/ \A i \in 1..Len(allowed_tokens) : allowed_tokens[i] # provided_token
            THEN UnrecognizedSource
            ELSE inner

\* register_routes: public.merge(auth_limited).merge(protected)
\* .layer(correlation_id_middleware).layer(internal_caller_middleware).
register_routes(req, fresh) ==
    internal_caller_middleware(req,
        correlation_id_middleware(req, users_routes(req), fresh))

\* create_router: the routes under .layer(correlation_id_middleware).
create_router(req, fresh) ==
    correlation_id_middleware(req, accounts_routes(req), fresh)

\* The requests of the two services.
UsersHttpRequests ==
    [path : {P_login, P_register, P_me, P_health},
     x_correlation_id : CorrelationHeaders,
     x_internal_service_token : InternalTokens, allowlist : Allowlists,
     allow : BOOLEAN, status : HandlerStatuses]

AccountsHttpRequests ==
    [path : {P_deposit, P_withdraw, P_health},
     x_correlation_id : CorrelationHeaders,
     allow : BOOLEAN, status : HandlerStatuses]

\* The Users service answers a request.
ServeUsers(req) ==
    /\ httpOut.served < MaxServed
    /\ httpOut' = [served |-> httpOut.served + 1, service |-> "users",
                   path |-> req.path, sent |-> req.x_correlation_id,
                   res |-> register_routes(req, NewCorrelationIds[httpOut.served + 1])]
    /\ UNCHANGED <<now, moneyVars, resetVars, identityVars, accountVars,
                   registryVars, limitVars, eventVars, numberVars>>

\* The Accounts service answers a request.
ServeAccounts(req) ==
    /\ httpOut.served < MaxServed
    /\ httpOut' = [served |-> httpOut.served + 1, service |-> "accounts",
                   path |-> req.path, sent |-> req.x_correlation_id,
                   res |-> create_router(req, NewCorrelationIds[httpOut.served + 1])]
    /\ UNCHANGED <<now, moneyVars, resetVars, identityVars, accountVars,
                   registryVars, limitVars, eventVars, numberVars>>

\* No request was served yet.
StackIdle ==
    httpOut = [served |-> 0, service |-> NULL, path |-> << >>, sent |-> << >>,
               res |-> Respond(0)]


(***************************************************************************)
(* Account numbers (utils/account_number.rs).  A number is a sequence of   *)
(* digit characters.  The random digits after the first repeat a seed of   *)
(* two digits, which keeps the numbers of a length few.                    *)
(***************************************************************************)
MaxGens == 2

\* const MAX_RETRIES: u32 = 10
MAX_RETRIES == 10

\* length.max(10).min(16): the bounds of the length.
MinLength == 10

MaxLength == 16

GenCalls == 1..MaxGens

DigitChars == <<"0", "1", "2", "3", "4", "5", "6", "7", "8", "9">>

\* The digit a character stands for.
digit_value(c) == (CHOOSE i \in 1..Len(DigitChars) : DigitChars[i] = c) - 1

\* i.to_string() of a digit.
digit_char(d) == DigitChars[d + 1]

\* The lengths callers ask for; create_account asks for 12.
RequestedLengths == {9, 12, 17}

\* rng.gen_range(1..=9) and rng.gen_range(0..=9) as the model draws them.
FirstDigits == {1, 9}

SeedDigits == {0, 5}

\* The length as the caller passed it.
unclamped(length) == length

\* length.max(10).min(16)
clamp(length) ==
    IF length < MinLength THEN MinLength
    ELSE IF length > MaxLength THEN MaxLength ELSE length

\* The base number: the first digit and base_length - 1 further digits.
base_number(first_digit, seed, base_length) ==
    [i \in 1..base_length |->
        IF i = 1 THEN digit_char(first_digit)
        ELSE digit_char(seed[(i % 2) + 1])]

\* Luhn: a doubled digit, with the digits of the product added up.
luhn_double(d) == IF 2 * d > 9 THEN 2 * d - 9 ELSE 2 * d

RECURSIVE luhn_sum(_, _)
\* Luhn: the sum over the digits from the right, every second one doubled.
luhn_sum(digits, doubled) ==
    IF digits = << >> THEN 0
    ELSE LET d == digit_value(digits[Len(digits)])
         IN (IF doubled THEN luhn_double(d) ELSE d)
            + luhn_sum(SubSeq(digits, 1, Len(digits) - 1), ~doubled)

\* luhn3::decimal::checksum: the digit that makes the number valid.
checksum(base) == digit_char((10 - (luhn_sum(base, TRUE) % 10)) % 10)

\* luhn3::decimal::valid
valid(number) == luhn_sum(number, FALSE) % 10 = 0

\* validate_account_number
validate_account_number(account_number) ==
    /\ \A i \in 1..Len(account_number) :
           \E d \in 1..Len(DigitChars) : DigitChars[d] = account_number[i]
    /\ ~(Len(account_number) < MinLength \/ Len(account_number) > MaxLength)
    /\ valid(account_number)

\* account_number_exists
account_number_exists(account_number) == account_number \in accountNumbers

IdleGen ==
    [pc |-> "idle", requested |-> 0, length |-> 0, attempts |-> 0,
     account_number |-> << >>, result |-> NULL]

\* The numbers in storage before the model runs: two that the generator can
\* draw.
StoredNumbers ==
    {Append(base_number(1, <<0, 0>>, 9), checksum(base_number(1, <<0, 0>>, 9))),
     Append(base_number(9, <<5, 0>>, 11), checksum(base_number(9, <<5, 0>>, 11)))}

\* generate_account_number: the length is clamped.
GenerateBegin(g, length) ==
    /\ gens[g].pc = "idle"
    /\ IF g = 1 THEN TRUE ELSE gens[g - 1].pc = "done"
    /\ gens' = [gens EXCEPT ![g] = [IdleGen EXCEPT !.pc = "loop",
                                        !.requested = length,
                                        !.length = clamp(length)]]
    /\ UNCHANGED <<now, moneyVars, resetVars, identityVars, accountVars,
                   registryVars, limitVars, eventVars, stackVars, accountNumbers>>

\* One round of the loop: draw the base number, append the checksum, look
\* the number up; return it when storage has none like it.
GenerateAttempt(g, first_digit, seed) ==
    /\ gens[g].pc = "loop"
    /\ gens[g].attempts < MAX_RETRIES
    /\ LET base == base_number(first_digit, seed, gens[g].length - 1)
           account_number == Append(base, checksum(base))
       IN gens' = [gens EXCEPT ![g] =
            IF ~account_number_exists(account_number)
            THEN [@ EXCEPT !.pc = "created", !.account_number = account_number,
                           !.result = [ok |-> TRUE]]
            ELSE [@ EXCEPT !.attempts = @ + 1]]
    /\ UNCHANGED <<now, moneyVars, resetVars, identityVars, accountVars,
                   registryVars, limitVars, eventVars, stackVars, accountNumbers>>

\* After MAX_RETRIES rounds that met a stored number: Internal.
GenerateGiveUp(g) ==
    /\ gens[g].pc = "loop"
    /\ ~(gens[g].attempts < MAX_RETRIES)
    /\ gens' = [gens EXCEPT ![g].pc = "done", ![g].result = InternalError]
    /\ UNCHANGED <<now, moneyVars, resetVars, identityVars, accountVars,
                   registryVars, limitVars, eventVars, stackVars, accountNumbers>>

\* create_account: the INSERT of the row with the generated number.
StoreNumber(g) ==
    /\ gens[g].pc = "created"
    /\ accountNumbers' = accountNumbers \cup {gens[g].account_number}
    /\ gens' = [gens EXCEPT ![g].pc = "done"]
    /\ UNCHANGED <<now, moneyVars, resetVars, identityVars, accountVars,
                   registryVars, limitVars, eventVars, stackVars>>

\* No number is being generated.
NumberIdle ==
    /\ accountNumbers = StoredNumbers
    /\ gens = [g \in GenCalls |-> IdleGen]


(***************************************************************************)
(* Specifications of the Accounts service.                                 *)
(***************************************************************************)
Init ==
    /\ now = 0
    /\ accounts = AccountRows
    /\ txs = <<>>
    /\ nextTxId = 1
    /\ calls = [c \in Calls |-> IdleCall]
    /\ wpc = "sleep"
    /\ wq = <<>>
    /\ wpost = NoPost
    /\ wres = [ok |-> TRUE]
    /\ ledgerFate = <<>>
    /\ ResetIdle
    /\ IdentityIdle
    /\ AccountIdle
    /\ PlatformIdle
    /\ LimitIdle
    /\ KeyIdle
    /\ EventIdle
    /\ StackIdle
    /\ NumberIdle

\* The remote outcomes SpecIntent draws from: an answer of either kind, or none.
IntentOutcomes == {"posted", "rejected", "timeout"}

\* A request's steps after it arrived, with the ledger's outcomes drawn from O.
CallStep(O) ==
    \/ \E c \in Calls : CteSnapshot(c)
    \/ \E c \in Calls : CteInsert(c)
    \/ \E c \in Calls : Commit(c)
    \/ \E c \in Calls : \E outcome \in O : LedgerPost(c, outcome)
    \/ \E c \in Calls : Settle(c)
    \/ \E c \in Calls : Cancel(c)

\* SpecIntent: concurrent requests against the idempotency engine.
NextIntent ==
    \/ \E c \in Calls : \E req \in IntentRequests : Begin(c, req)
    \/ CallStep(IntentOutcomes)

SpecIntent == Init /\ [][NextIntent]_vars

\* SpecSettle: concurrent requests, the retry worker and the clock.
NextSettle ==
    \/ \E c \in Calls : \E req \in SettleRequests : Begin(c, req)
    \/ CallStep(LedgerOutcomes)
    \/ WorkerFetch
    \/ \E outcome \in LedgerOutcomes : WorkerPost(outcome)
    \/ WorkerSettle
    \/ WorkerSleep
    \/ Tick

SpecSettle == Init /\ [][NextSettle]_vars

(***************************************************************************)
(* SpecRetry: the retry worker alone, over intents that earlier requests   *)
(* left pending, against a ledger that answers each intent the same way    *)
(* every time. The worker is a spawned task that loops for ever            *)
(* (main.rs: tokio::spawn), hence the weak fairness of its steps.          *)
(***************************************************************************)
NumPending == 3

RetryIds == 1..NumPending

\* What the ledger keeps answering for an intent.
RetryFates == {"posted", "rejected", "timeout"}

InitRetry ==
    /\ now = NumPending + GraceSecs
    /\ accounts = AccountRows
    /\ txs = [id \in RetryIds |->
                [NewRow(id, "O1", "A1", "A1", 1, "USD", "deposit",
                        IF id = 1 THEN "K1" ELSE IF id = 2 THEN "K2" ELSE "K3",
                        NULL, 1)
                    EXCEPT !.created_at = id - 1, !.updated_at = id - 1,
                           !.committed = TRUE]]
    /\ nextTxId = NumPending + 1
    /\ calls = [c \in Calls |-> IdleCall]
    /\ wpc = "sleep"
    /\ wq = <<>>
    /\ wpost = NoPost
    /\ wres = [ok |-> TRUE]
    /\ ledgerFate \in [RetryIds -> RetryFates]
    /\ ResetIdle
    /\ IdentityIdle
    /\ AccountIdle
    /\ PlatformIdle
    /\ LimitIdle
    /\ KeyIdle
    /\ EventIdle
    /\ StackIdle
    /\ NumberIdle

NextRetry ==
    \/ WorkerFetch
    \/ \E outcome \in RetryFates :
         /\ wq # <<>>
         /\ outcome = ledgerFate[Head(wq).id]
         /\ WorkerPost(outcome)
    \/ WorkerSettle
    \/ WorkerSleep

SpecRetry == InitRetry /\ [][NextRetry]_vars /\ WF_vars(NextRetry)

(***************************************************************************)
(* SpecReset: concurrent password-reset requests and consumes.             *)
(***************************************************************************)
NextReset ==
    \/ \E r \in ReqCalls : \E email \in Emails : RequestLookup(r, email)
    \/ \E r \in ReqCalls : RequestInvalidate(r)
    \/ \E r \in ReqCalls : RequestInsert(r, "sent")
    \/ \E k \in ResetCalls : \E token \in RawTokens : \E pw \in Passwords :
         ResetBegin(k, token, pw)
    \/ \E k \in ResetCalls : ResetClaim(k)
    \/ \E k \in ResetCalls : ResetUpdateUser(k)
    \/ \E k \in ResetCalls : ResetInvalidateSiblings(k)
    \/ \E k \in ResetCalls : ResetCommit(k)
    \/ \E k \in ResetCalls : ResetDeadlock(k)
    \/ \E k \in ResetCalls : ResetCancel(k)
    \/ TickHour

SpecReset == Init /\ [][NextReset]_vars

(***************************************************************************)
(* SpecSession: logins, concurrent refreshes and revocations of sessions.  *)
(***************************************************************************)
\* The logins of SpecSession: an admin into production, a user into the
\* default environment, and a wrong password.
SessionLogins ==
    {<<"alice", "initialpw", "EA_prod">>, <<"carol", "initialpw", NULL>>,
     <<"alice", "wrongpass", "EA_prod">>}

NextSession ==
    \/ \E req \in SessionLogins : Login(req[1], req[2], req[3])
    \/ \E k \in RefreshCalls : \E token \in RefreshTokens : RefreshSelect(k, token)
    \/ \E k \in RefreshCalls : RefreshUpdate(k)
    \/ \E k \in RefreshCalls : RefreshCommit(k)
    \/ \E k \in RefreshCalls : RefreshCancel(k)
    \/ \E token \in RefreshTokens : RevokeToken(token)
    \/ TickDay

SpecSession == Init /\ [][NextSession]_vars


(***************************************************************************)
(* SpecAuth: logins, API keys and requests through the auth extractor.     *)
(***************************************************************************)
\* The header values clients send.
EnvIdHeaders == {NULL, " ", "not-a-uuid", "E_none", "EA_prod", "EA_sbx", "EB_prod"}

EnvHeaders == {NULL, "production", "staging"}

ApiKeyHeaders == {KeyPlain[k] : k \in KeyIds} \cup {"unknown"}

\* The two ways a request names its environment: by id, or by type.
EnvSelections ==
    {<<env_id, NULL>> : env_id \in EnvIdHeaders}
      \cup {<<NULL, env>> : env \in EnvHeaders}

\* Requests that carry an API key.
KeyRequests ==
    {Headers(sel[1], sel[2], api_key, NoAuthorization) :
        sel \in EnvSelections, api_key \in ApiKeyHeaders}

\* Requests that carry an Authorization header and no API key.
BearerRequests ==
    {Headers(env_id, NULL, NULL, authorization) :
        env_id \in EnvIdHeaders,
        authorization \in {BasicAuthorization, GarbageBearer}
                            \cup {Bearer(claims) : claims \in jwts}}

\* Requests that carry neither credential.
BareRequests ==
    {Headers(sel[1], sel[2], NULL, NoAuthorization) : sel \in EnvSelections}

AuthRequests == KeyRequests \cup BearerRequests \cup BareRequests

\* The requests sent to the API-key endpoints: a logged-in user naming an
\* environment, or an API key.
AdminRequests ==
    {h \in BearerRequests : /\ h.env_id \in {"EA_prod", "EA_sbx", "EB_prod"}
                            /\ h.authorization.kind = "bearer"
                            /\ h.authorization.signed}
      \cup {Headers("EA_prod", NULL, "k1", NoAuthorization)}

AuthLogins ==
    {<<"alice", "initialpw", "EA_prod">>, <<"carol", "initialpw", NULL>>,
     <<"bob", "initialpw", "EB_prod">>}

NextAuth ==
    \/ \E req \in AuthLogins : Login(req[1], req[2], req[3])
    \/ \E h \in AuthRequests : Authenticate(h)
    \/ \E h \in AdminRequests : \E e \in {NULL, "EA_prod", "EA_sbx", "EB_prod"} :
         CreateApiKey(h, e)
    \/ \E h \in AdminRequests : \E k \in KeyIds : RevokeApiKey(h, k)

SpecAuth == Init /\ [][NextAuth]_vars


(***************************************************************************)
(* SpecStatus: concurrent status updates and closes of accounts.           *)
(***************************************************************************)
NextStatus ==
    \/ \E c \in StatusCalls : \E id \in {"A1", "A2", "missing"} :
         \E status \in AccountStatuses : StatusRead(c, id, status)
    \/ \E c \in StatusCalls : StatusWrite(c)

SpecStatus == Init /\ [][NextStatus]_vars

(***************************************************************************)
(* SpecEnv: account creation over HTTP and over the Users-to-Accounts RPC. *)
(***************************************************************************)
NextEnv ==
    \/ \E header \in EnvironmentHeaders : \E body \in BodyEnvironments :
         CreateAccountHttp(header, body)
    \/ \E type \in EnvironmentTypes : CreateAccountRpc(type)
    \/ CreateDefaultAccount(<<>>, ProtoUnspecified)

SpecEnv == Init /\ [][NextEnv]_vars


(***************************************************************************)
(* SpecValidate: well-formed and malformed money requests, side by side.   *)
(***************************************************************************)
MoneyKinds == {"deposit", "withdraw", "transfer", "create_transaction"}

\* A request of the given kind between two accounts of the sandbox.
MoneyRequest(kind, from, to, amount, key) ==
    Request(kind, from, IF kind \in {"deposit", "withdraw"} THEN from ELSE to,
            amount, key, IF kind = "create_transaction" THEN "sandbox" ELSE NULL)

\* The requests of SpecValidate: valid ones, transfers across organizations
\* (A1 to B1) and across currencies (A1 to A3), amounts of zero and below,
\* and Idempotency-Key headers that are missing, empty or blank.
ValidateRequests ==
    {MoneyRequest(kind, "A1", to, 1, "K1") :
        kind \in MoneyKinds, to \in {"A2", "A3", "B1"}}
    \cup {MoneyRequest(kind, "A1", "A2", amount, "K1") :
            kind \in MoneyKinds, amount \in {0, -1}}
    \cup {MoneyRequest(kind, "A1", "A2", 1, key) :
            kind \in MoneyKinds, key \in {NULL, "", " "}}
    \cup {[MoneyRequest("create_transaction", "A3", "A3", 1, "K1")
              EXCEPT !.currency = "EUR"]}

NextValidate ==
    \/ \E c \in Calls : \E req \in ValidateRequests : Begin(c, req)
    \/ CallStep({"posted", "timeout"})

SpecValidate == Init /\ [][NextValidate]_vars


(***************************************************************************)
(* SpecActive: money requests while accounts are suspended and closed.     *)
(***************************************************************************)
\* The requests of SpecActive: one well-formed request of each kind, on A1
\* or from A1 to A2.
ActiveRequests == {MoneyRequest(kind, "A1", "A2", 1, "K1") : kind \in MoneyKinds}

NextActive ==
    \/ \E c \in StatusCalls : \E id \in {"A1", "A2"} :
         \E status \in {"suspended", "closed"} : StatusRead(c, id, status)
    \/ \E c \in StatusCalls : StatusWrite(c)
    \/ \E c \in Calls : \E req \in ActiveRequests : Begin(c, req)
    \/ CallStep({"posted"})

SpecActive == Init /\ [][NextActive]_vars


(***************************************************************************)
(* SpecRegister: concurrent business registrations, and logins of the      *)
(* admins they create.                                                     *)
(***************************************************************************)
\* The registrations of SpecRegister: two new e-mails and one that an
\* existing user holds.
RegRequests ==
    {[name |-> "Acme", admin_email |-> email, admin_password |-> "secretpw1"] :
        email \in {"dave", "erin", "alice"}}

\* The logins of SpecRegister: a new admin's e-mail with the registered
\* password or another one, without an environment_id and with the id of
\* an environment of a new business.
RegLogins ==
    {<<email, password, requested>> :
        email \in {"dave", "erin"},
        password \in {"secretpw1", "wrongpass"},
        requested \in {NULL} \cup {NewProductionIds[k] : k \in RegCalls}
                             \cup {NewSandboxIds[k] : k \in RegCalls}}

NextRegister ==
    \/ \E k \in RegCalls : \E req \in RegRequests : RegisterBegin(k, req)
    \/ \E k \in RegCalls : RegisterSandbox(k)
    \/ \E k \in RegCalls : RegisterProduction(k)
    \/ \E k \in RegCalls : RegisterUser(k)
    \/ \E k \in RegCalls : RegisterCommit(k)
    \/ \E k \in RegCalls : RegisterFail(k)
    \/ \E l \in RegLogins : Login(l[1], l[2], l[3])

SpecRegister == Init /\ [][NextRegister]_vars


(***************************************************************************)
(* SpecUsers: logged-in users and an API key calling GET /me and           *)
(* POST /users.                                                            *)
(***************************************************************************)
\* The requests of SpecUsers: a bearer token naming an environment of either
\* business, or the API key naming an environment of its business.
UserRequests ==
    {Headers(env_id, NULL, NULL, Bearer(claims)) :
        env_id \in {"EA_prod", "EA_sbx", "EB_prod"}, claims \in jwts}
      \cup {Headers(env_id, NULL, "k1", NoAuthorization) :
              env_id \in {"EA_prod", "EA_sbx"}}

UserPayloads ==
    {[email |-> email, password |-> "secretpw1"] : email \in {"frank", "alice"}}

NextUsers ==
    \/ \E l \in {<<"alice", "initialpw", "EA_prod">>, <<"carol", "initialpw", NULL>>} :
         Login(l[1], l[2], l[3])
    \/ \E h \in {r \in UserRequests : r.api_key = NULL} : CreateApiKey(h, NULL)
    \/ \E h \in UserRequests : Me(h)
    \/ \E h \in UserRequests : \E payload \in UserPayloads : \E rpc \in RpcOutcomes :
         CreateUser(h, payload, rpc)

SpecUsers == Init /\ [][NextUsers]_vars


\* The limiter alone: calls of allow() for two client keys while the clock
\* runs.
NextLimit ==
    \/ TickInstant
    \/ \E c \in AllowCalls, client_key \in ClientKeys : AllowLock(c, client_key)
    \/ \E c \in AllowCalls : AllowEntry(c)
    \/ \E c \in AllowCalls : AllowCount(c)

SpecLimit == Init /\ [][NextLimit]_vars


\* The client key of requests from two peers, under four proxy lists.
NextKey ==
    \/ \E req \in ClientRequests : KeyAsServed(req)
    \/ \E req \in ClientRequests : KeyWithConnectInfo(req)

SpecKey == Init /\ [][NextKey]_vars


\* Requests for a reset link for known and unknown addresses, with every
\* outcome of the mail.
NextRequest ==
    \/ \E r \in ReqCalls : \E email \in Emails : RequestLookup(r, email)
    \/ \E r \in ReqCalls : RequestInvalidate(r)
    \/ \E r \in ReqCalls : \E mail \in MailOutcomes : RequestInsert(r, mail)
    \/ TickHour

SpecRequest == Init /\ [][NextRequest]_vars


\* The consumer of users.user.created with deliveries that fail at each of
\* its steps.
NextEvents ==
    \/ \E e \in EventIds, role \in EventRoles : UserCreated(e, role)
    \/ \E e \in EventIds, outcome \in DeliveryOutcomes : ProcessUserCreated(e, outcome)

SpecEvents == Init /\ [][NextEvents]_vars


\* Requests to the two services, with and without a correlation id, an
\* internal token and a free slot in the rate limiter.
NextHttp ==
    \/ \E req \in UsersHttpRequests : ServeUsers(req)
    \/ \E req \in AccountsHttpRequests : ServeAccounts(req)

SpecHttp == Init /\ [][NextHttp]_vars


\* Calls of generate_account_number, one after the other, against a table
\* that already holds numbers.
NextNumber ==
    \/ \E g \in GenCalls, length \in RequestedLengths : GenerateBegin(g, length)
    \/ \E g \in GenCalls, first_digit \in FirstDigits,
          seed \in [1..2 -> SeedDigits] : GenerateAttempt(g, first_digit, seed)
    \/ \E g \in GenCalls : GenerateGiveUp(g)
    \/ \E g \in GenCalls : StoreNumber(g)

SpecNumber == Init /\ [][NextNumber]_vars


(***************************************************************************)
(* SpecRevoke: logins, refresh-token rotation and revocation, and requests *)
(* that present the bearer tokens minted along the way to the extractor.  *)
(***************************************************************************)
\* Bearer requests that name an environment of business BizA.
RevokeRequests ==
    {Headers(env_id, NULL, NULL, authorization) :
        env_id \in {"EA_prod", "EA_sbx"},
        authorization \in {GarbageBearer} \cup {Bearer(claims) : claims \in jwts}}

NextRevoke ==
    \/ \E req \in SessionLogins : Login(req[1], req[2], req[3])
    \/ \E k \in RefreshCalls : \E token \in RefreshTokens : RefreshSelect(k, token)
    \/ \E k \in RefreshCalls : RefreshUpdate(k)
    \/ \E k \in RefreshCalls : RefreshCommit(k)
    \/ \E token \in RefreshTokens : RevokeToken(token)
    \/ \E h \in RevokeRequests : Authenticate(h)

SpecRevoke == Init /\ [][NextRevoke]_vars


(***************************************************************************)
(* SpecScope: one idempotency key sent to accounts of two organizations    *)
(* and of two environments of one organization.                            *)
(***************************************************************************)
\* The accounts table with an account of O1 in the production environment.
ScopeAccountRows ==
    [a \in AccountIds |->
        [organization_id |-> IF a = "B1" THEN "O2" ELSE "O1",
         currency |-> "USD",
         environment |-> IF a = "A3" THEN "production" ELSE "sandbox",
         status |-> "active"]]

ScopeRequests ==
    {Request("deposit", "A1", "A1", 1, "K1", NULL),
     Request("withdraw", "A1", "A1", 2, "K1", NULL),
     Request("deposit", "A3", "A3", 1, "K1", NULL),
     Request("deposit", "B1", "B1", 1, "K1", NULL),
     Request("create_transaction", "A1", "A2", 1, "K1", "sandbox"),
     Request("create_transaction", "A3", "A3", 1, "K1", "production")}

InitScope ==
    /\ now = 0
    /\ accounts = ScopeAccountRows
    /\ txs = <<>>
    /\ nextTxId = 1
    /\ calls = [c \in Calls |-> IdleCall]
    /\ wpc = "sleep"
    /\ wq = <<>>
    /\ wpost = NoPost
    /\ wres = [ok |-> TRUE]
    /\ ledgerFate = <<>>
    /\ ResetIdle
    /\ IdentityIdle
    /\ AccountIdle
    /\ PlatformIdle
    /\ LimitIdle
    /\ KeyIdle
    /\ EventIdle
    /\ StackIdle
    /\ NumberIdle

NextScope ==
    \/ \E c \in Calls : \E req \in ScopeRequests : Begin(c, req)
    \/ CallStep(IntentOutcomes)

SpecScope == InitScope /\ [][NextScope]_vars


(***************************************************************************)
(* Claims about the money-movement engine.                                 *)
(***************************************************************************)
Terminal == {"posted", "failed"}

Unreachable == {"connect_failed", "transport", "timeout"}

\* C1 (SpecSettle): terminal sink. Once a Transaction row is posted or failed,
\* its status, failure_reason and updated_at never change again, and the only
\* status changes that ever occur are pending -> posted and pending -> failed.
TerminalSink ==
    [][\A id \in DOMAIN txs :
         /\ txs[id].status \in Terminal =>
              /\ id \in DOMAIN txs'
              /\ txs'[id].status = txs[id].status
              /\ txs'[id].failure_reason = txs[id].failure_reason
              /\ txs'[id].updated_at = txs[id].updated_at
         /\ (id \in DOMAIN txs' /\ txs'[id].status # txs[id].status) =>
              /\ txs[id].status = "pending"
              /\ txs'[id].status \in Terminal]_vars

\* C2 (SpecIntent): idempotency invariant. In every reachable state there is
\* at most one Transaction row for each
\* (organization_id, COALESCE(environment,''), idempotency_key).
IdempotencyUnique ==
    \A i, j \in DOMAIN txs : IdemTriple(txs[i]) = IdemTriple(txs[j]) => i = j

\* C2 witness: the same key was sent twice in one (organization, environment),
\* both requests returned successfully and name the one row stored for it.
IdempotencyUniqueWitness ==
    /\ Cardinality(Committed) = 1
    /\ \E c1, c2 \in Calls :
         /\ c1 # c2
         /\ calls[c1].pc = "done" /\ calls[c2].pc = "done"
         /\ calls[c1].result.ok /\ calls[c2].result.ok
         /\ calls[c1].ret.id = calls[c2].ret.id

\* C3 (SpecIntent): race-safe create-or-get. Callers that run
\* create_or_get_by_idempotency with the same organization, environment and key
\* and equal arguments all return successfully with the same transaction id;
\* none receives an error because another one inserted first.
RaceSafeCreateOrGet ==
    \A c1, c2 \in Calls :
        (/\ calls[c1].pc = "done" /\ calls[c2].pc = "done"
         /\ calls[c1].req = calls[c2].req)
        => /\ calls[c1].result.ok
           /\ calls[c2].result.ok
           /\ calls[c1].ret.id = calls[c2].ret.id

\* A ledger request carries the id, key, amount, currency and organization
\* stored in the Transaction row it is sent for.
MatchesRow(p) ==
    p.sent =>
        /\ p.external_transaction_id \in DOMAIN txs
        /\ LET row == txs[p.external_transaction_id] IN
             /\ p.idempotency_key = row.idempotency_key
             /\ p.amount = row.amount
             /\ p.currency = row.currency
             /\ p.organization_id = row.organization_id

\* C4 (SpecIntent): ledger post matches the intent. Every PostTransaction call
\* issued for an intent carries the id, idempotency_key, amount, currency and
\* organization_id stored in that Transaction row, also when the request is a
\* replay of an existing key with a different amount or different accounts.
LedgerPostMatchesIntent ==
    /\ \A c \in Calls : MatchesRow(calls[c].post)
    /\ MatchesRow(wpost)

\* C5 (SpecSettle): settlement on ledger rejection. When the ledger answers a
\* post with a status other than posted, the request's settlement sets the
\* intent to failed and the request returns a BusinessLogic error.
RejectionSettlesFailed ==
    [][\A c \in Calls :
         (/\ calls[c].pc = "settle"
          /\ calls[c].outcome = "rejected"
          /\ calls'[c].pc = "done")
         => /\ ~calls'[c].result.ok
            /\ calls'[c].result.err = "BusinessLogic"
            /\ txs'[calls[c].tx.id].status = "failed"]_vars

\* C6 (SpecSettle): settlement on ledger unreachable. When the ledger call
\* fails by connect error, transport error or timeout, the request returns
\* successfully with the intent in status pending and a non-empty
\* failure_reason, and the stored row is pending for the retry worker.
UnreachableLeavesPending ==
    [][\A c \in Calls :
         (/\ calls[c].pc = "settle"
          /\ calls[c].outcome \in Unreachable
          /\ calls'[c].pc = "done")
         => /\ calls'[c].result.ok
            /\ calls'[c].ret.status = "pending"
            /\ calls'[c].ret.failure_reason \notin {NULL, ""}
            /\ txs'[calls'[c].ret.id].status = "pending"
            /\ txs'[calls'[c].ret.id].failure_reason \notin {NULL, ""}]_vars

\* C6 witness: a request whose ledger call timed out has returned its intent
\* as pending.
UnreachableLeavesPendingWitness ==
    \E c \in Calls :
        /\ calls[c].pc = "done"
        /\ calls[c].outcome = "timeout"
        /\ calls[c].result.ok
        /\ calls[c].ret.status = "pending"

\* C7 (SpecSettle): intent durability and ordering. The intent row is
\* committed before the ledger call is issued: every ledger request, of a
\* request or of the retry worker, names a transaction id that is durable in
\* storage, and every successful response returns the id of a durable row,
\* also after the request was cancelled once the intent was committed.
IntentDurableBeforePost ==
    /\ \A c \in Calls :
         /\ calls[c].post.sent => calls[c].post.external_transaction_id \in Committed
         /\ calls[c].pc \in {"post", "settle"} => calls[c].tx.id \in Committed
         /\ (calls[c].pc = "done" /\ calls[c].result.ok) => calls[c].ret.id \in Committed
    /\ wpost.sent => wpost.external_transaction_id \in Committed

\* C7 witness: a request was cancelled after its ledger request went out, and
\* its intent is stored, pending.
IntentDurableBeforePostWitness ==
    \E c \in Calls :
        /\ calls[c].pc = "cancelled"
        /\ calls[c].post.sent
        /\ calls[c].post.external_transaction_id \in Committed
        /\ txs[calls[c].post.external_transaction_id].status = "pending"

\* C8 (SpecRetry): eventual settlement. Under fair scheduling of the retry
\* worker every pending Transaction older than the grace period whose ledger
\* post would succeed eventually becomes posted, whatever other pending
\* intents are stored (older ones whose posts keep failing, more rows than
\* the sweep's batch limit).
EventualSettlement ==
    \A id \in RetryIds :
        (id \in PendingOlder(GraceSecs) /\ ledgerFate[id] = "posted")
            ~> (txs[id].status = "posted")

(***************************************************************************)
(* Claims about the password reset.                                        *)
(***************************************************************************)
\* The reset_password calls that returned after presenting token tok with a
\* password of valid length.
Consumes(tok) ==
    {k \in ResetCalls :
        /\ resets[k].pc = "done"
        /\ resets[k].token = tok
        /\ Len(resets[k].new_password) >= MinPasswordLen}

\* Token tok stayed claimable for the calls that presented it: it had not
\* expired when they read the clock, and no other reset was requested for
\* its user.
StayedLive(tok) ==
    /\ \A k \in Consumes(tok) : tokens[tok].expires_at >= resets[k].at
    /\ \A r \in ReqCalls :
         requests[r].user_id # tokens[tok].user_id \/ requests[r].raw = tok

\* C9 (SpecReset): password reset single-use. Of the reset_password calls
\* that present one token at most one succeeds, in any interleaving; when two
\* or more calls consume a token that stayed live, exactly one succeeds and
\* every other one gets BadRequest("Invalid or expired reset token").
ResetSingleUse ==
    \A tok \in DOMAIN tokens :
        /\ Cardinality({k \in Consumes(tok) : resets[k].result.ok}) <= 1
        /\ (Cardinality(Consumes(tok)) >= 2 /\ StayedLive(tok)) =>
             /\ Cardinality({k \in Consumes(tok) : resets[k].result.ok}) = 1
             /\ \A k \in Consumes(tok) :
                  ~resets[k].result.ok => resets[k].result = InvalidToken

\* C9 witness: two calls raced for one token; the one that read the clock
\* first lost the claim and got BadRequest, the other one succeeded.
ResetSingleUseWitness ==
    \E tok \in DOMAIN tokens : \E k1, k2 \in Consumes(tok) :
        /\ resets[k1].result.ok
        /\ resets[k2].result = InvalidToken
        /\ resets[k2].at < resets[k1].at
        /\ StayedLive(tok)

\* The rows with the hash of the token call k presents.
Presented(k) ==
    {id \in DOMAIN tokens : tokens[id].token_hash = token_hash(resets[k].token)}

\* The token call k presents cannot be honoured: it is unknown, past its
\* expiry, or used (consumed, or superseded by a later request).
NotHonourable(k) ==
    \A id \in Presented(k) :
        tokens[id].used_at # NoTime \/ tokens[id].expires_at < resets[k].at

Rotated(token) ==
    \E j \in RefreshCalls :
        /\ refreshes[j].pc = "done"
        /\ refreshes[j].result.ok
        /\ refreshes[j].token = token

\* C11 (SpecSession): session rotation. When refresh_token succeeds for
\* refresh token R, the old session is revoked and the returned token is a
\* fresh one that identifies an active session of the same user and
\* environment; every refresh_token or revoke_token call that presents R
\* after that is rejected and changes no session, and a revoked session never
\* becomes active again.
SessionRotation ==
    [][/\ \A k \in RefreshCalls :
            (refreshes[k].pc = "commit" /\ refreshes'[k].pc = "done"
               /\ refreshes'[k].result.ok)
            => LET old == refreshes[k].session
                   n == refreshes'[k].result.refresh_token
               IN  /\ sessions'[old].status = "revoked"
                   /\ n # refreshes[k].token
                   /\ SessionByToken(n) = {}
                   /\ \E s \in DOMAIN sessions' :
                        /\ sessions'[s].refresh_token = n
                        /\ sessions'[s].status = "active"
                        /\ sessions'[s].user_id = sessions[old].user_id
                        /\ sessions'[s].environment_id = sessions[old].environment_id
       /\ \A k \in RefreshCalls :
            (refreshes[k].pc = "idle" /\ refreshes'[k].pc # "idle"
               /\ Rotated(refreshes'[k].token))
            => /\ refreshes'[k].pc = "done"
               /\ refreshes'[k].result = Unauthorized
               /\ sessions' = sessions
       /\ (authOut' # authOut /\ authOut'.op = "revoke_token"
             /\ Rotated(authOut'.req.refresh_token))
            => /\ ~authOut'.result.ok
               /\ sessions' = sessions
       /\ \A s \in DOMAIN sessions :
            sessions[s].status = "revoked" => sessions'[s].status = "revoked"
      ]_vars

\* C11 witness: a refresh rotated token R, a later refresh and a later revoke
\* presenting R were both turned away, and the token the refresh returned
\* names an active session.
SessionRotationWitness ==
    \E k, j \in RefreshCalls :
        /\ k # j
        /\ refreshes[k].pc = "done" /\ refreshes[k].result.ok
        /\ refreshes[j].pc = "done" /\ ~refreshes[j].result.ok
        /\ refreshes[j].token = refreshes[k].token
        /\ refreshes[j].at >= refreshes[k].at
        /\ sessions[refreshes[k].session].status = "revoked"
        /\ \E s \in SessionByToken(refreshes[k].result.refresh_token) :
             sessions[s].status = "active"
        /\ authOut.op = "revoke_token"
        /\ authOut.req.refresh_token = refreshes[k].token
        /\ ~authOut.result.ok


\* A refresh_token call takes its first step: the lookup and the checks.
Looks(k) == refreshes[k].pc = "idle" /\ refreshes'[k].pc # "idle"

\* C12 (SpecSession), as amended: refresh precondition. refresh_token goes
\* on past its checks only if the session found by the presented token has
\* status active and expires_at >= now, and only such a call ever succeeds; a
\* call that presents an unknown token, a revoked session (revoked through
\* revoke_token or by rotation, even before its expiry) or a session with
\* expires_at < now is rejected as Unauthorized; a rejected call creates no
\* session: sessions are created only by a successful login or a successful
\* refresh.
RefreshPrecondition ==
    [][/\ \A k \in RefreshCalls :
            Looks(k) =>
              LET token == refreshes'[k].token
                  found == SessionByToken(token)
                  usable == {s \in found : /\ sessions[s].status = "active"
                                           /\ sessions[s].expires_at >= now}
              IN  /\ sessions' = sessions
                  /\ IF usable = {}
                     THEN /\ refreshes'[k].pc = "done"
                          /\ refreshes'[k].result = Unauthorized
                     ELSE /\ refreshes'[k].pc = "update"
                          /\ refreshes'[k].session \in usable
       /\ \A k \in RefreshCalls :
            (refreshes[k].pc # "done" /\ refreshes'[k].pc = "done"
               /\ refreshes'[k].result.ok)
            => /\ refreshes[k].pc = "commit"
               /\ sessions[refreshes[k].session].refresh_token = refreshes[k].token
               /\ sessions[refreshes[k].session].expires_at >= refreshes[k].at
       /\ DOMAIN sessions' # DOMAIN sessions
            => \/ authOut'.op = "login" /\ authOut'.result.ok
               \/ \E k \in RefreshCalls :
                    /\ refreshes[k].pc = "commit"
                    /\ refreshes'[k].pc = "done"
                    /\ refreshes'[k].result.ok
      ]_vars

\* C12 witness: one refresh succeeded at the very instant its session
\* expired, and another was turned away for a session that revoke_token had
\* revoked before its expiry.
RefreshPreconditionWitness ==
    \E k, j \in RefreshCalls :
        /\ refreshes[k].pc = "done" /\ refreshes[k].result.ok
        /\ sessions[refreshes[k].session].expires_at = refreshes[k].at
        /\ refreshes[j].pc = "done" /\ refreshes[j].result = Unauthorized
        /\ refreshes[j].session # 0
        /\ refreshes[j].session # refreshes[k].session
        /\ sessions[refreshes[j].session].status = "revoked"
        /\ refreshes[j].at < sessions[refreshes[j].session].expires_at

\* C12 (SpecSession), as stated: refresh_token succeeds only if the session
\* found has expires_at > now.
RefreshOnlyBeforeExpiry ==
    \A k \in RefreshCalls :
        (refreshes[k].pc = "done" /\ refreshes[k].result.ok)
        => sessions[refreshes[k].session].expires_at > refreshes[k].at


\* The requests that present the plaintext of key k.
RequestsWithKey(k) == {h \in KeyRequests : TrimHeader(h.api_key) = KeyPlain[k]}

\* The X-Environment-Id header of h is absent, empty or a well-formed id.
EnvIdWellFormed(h) == TrimHeader(h.env_id) = NULL \/ TrimHeader(h.env_id) \in Uuids

\* The environment headers of h name an environment of the business.
NamesEnvironmentOf(h, business_id) ==
    IF TrimHeader(h.env_id) # NULL
    THEN TrimHeader(h.env_id) \in ActiveEnvironments(business_id)
    ELSE TrimHeader(h.env) \in {"sandbox", "production"}

CredentialBusiness(h) ==
    IF TrimHeader(h.api_key) # NULL
    THEN {apiKeys[k].business_id :
            k \in {x \in KeyByHash(hash_api_key(TrimHeader(h.api_key))) :
                      ~KeyRejected(apiKeys[x])}}
    ELSE IF h.authorization.kind = "bearer" /\ h.authorization.signed
    THEN {users[h.authorization.claims.sub].business_id}
    ELSE {}

\* h names, by id, an environment that belongs to another business than b.
NamesForeignEnvironment(h, b) ==
    /\ TrimHeader(h.env_id) \in DOMAIN environments
    /\ environments[TrimHeader(h.env_id)].business_id # b

\* C14 (SpecAuth), as amended: tenant isolation of the auth extractor. Every
\* AuthContext that from_request_parts yields, for an API key or a bearer
\* token, has an environment_id that is an active environment of the yielded
\* business_id, which is the business of the credential; a request with a
\* valid credential that names an environment of another business is rejected
\* as Forbidden; a request with neither credential is rejected as
\* Unauthorized when it carries a well-formed X-Environment-Id header, and as
\* BadRequest when that header is missing, empty or malformed.
TenantIsolation ==
    /\ [](\A h \in AuthRequests :
            LET result == from_request_parts(h)
            IN  /\ result.ok =>
                      /\ result.ctx.environment_id \in DOMAIN environments
                      /\ environments[result.ctx.environment_id].status = "active"
                      /\ environments[result.ctx.environment_id].business_id
                           = result.ctx.business_id
                      /\ CredentialBusiness(h) = {result.ctx.business_id}
                /\ \A b \in CredentialBusiness(h) :
                      NamesForeignEnvironment(h, b) => result = Forbidden
                /\ h \in BareRequests =>
                      IF TrimHeader(h.env_id) = NULL
                      THEN result = BadRequest("Missing X-Environment-Id header")
                      ELSE IF TrimHeader(h.env_id) \notin Uuids
                      THEN result = BadRequest("Invalid X-Environment-Id header")
                      ELSE result = Unauthorized)
    /\ [][(authOut' # authOut /\ authOut'.op = "authenticate")
             => authOut'.result = from_request_parts(authOut'.req.headers)]_vars

\* C14 witness: a request with an active API key of one business named an
\* environment of the other business and was answered Forbidden.
TenantIsolationWitness ==
    /\ authOut.op = "authenticate"
    /\ authOut.result = Forbidden
    /\ TrimHeader(authOut.req.headers.api_key) # NULL
    /\ \E b \in CredentialBusiness(authOut.req.headers) :
         NamesForeignEnvironment(authOut.req.headers, b)

\* C14 (SpecAuth), as stated: a request with neither credential is rejected
\* as Unauthorized.
BareRequestUnauthorized ==
    (authOut.op = "authenticate" /\ authOut.req.headers \in BareRequests)
    => authOut.result = Unauthorized


\* C15 (SpecAuth): API-key environment scope. An API key issued with a
\* non-null environment_id E authenticates only requests that select
\* environment E; only a key whose environment_id is null authenticates
\* requests for any environment of its business.
ApiKeyEnvironmentScope ==
    (authOut.op = "authenticate" /\ authOut.result.ok
       /\ authOut.result.ctx.api_key_id # NoKey)
    => LET key == apiKeys[authOut.result.ctx.api_key_id]
       IN  key.environment_id # NULL
             => authOut.result.ctx.environment_id = key.environment_id

\* C16 (SpecAuth): bearer environment selection. For a bearer-token request
\* the environment header selects the environment when present; when no
\* environment header is present the token's embedded env claim is used, so
\* a valid bearer token without an environment header still authenticates.
BearerEnvironmentFallback ==
    (authOut.op = "authenticate"
       /\ TrimHeader(authOut.req.headers.api_key) = NULL
       /\ authOut.req.headers.authorization.kind = "bearer"
       /\ authOut.req.headers.authorization.signed)
    => LET h == authOut.req.headers
           claims == h.authorization.claims
       IN  IF TrimHeader(h.env_id) = NULL
           THEN /\ authOut.result.ok
                /\ authOut.result.ctx.user_id = claims.sub
                /\ authOut.result.ctx.environment_id = claims.env
           ELSE authOut.result.ok
                  => authOut.result.ctx.environment_id = TrimHeader(h.env_id)


(***************************************************************************)
(* Claims about account status and environment resolution.                 *)
(***************************************************************************)
\* C17 (SpecStatus): closed is terminal. Once an account has status closed,
\* no sequence or interleaving of update_account_status and close_account
\* calls, a status update that read the account before a concurrent close
\* committed included, ever changes its status to active or suspended.
ClosedIsTerminal ==
    [][\A a \in DOMAIN accounts :
          accounts[a].status = "closed" => accounts'[a].status = "closed"]_vars

\* The headers that ask for production: the word, in any case, with or
\* without blanks around it.
ProductionHeaders ==
    {Header(S_production), Header(S_Production), Header(S_PRODUCTION),
     Header(S_padded)}

\* The last account creation was an explicit request for production.
AsksForProduction(out) ==
    \/ out.op = "http" /\ out.header \in ProductionHeaders
    \/ out.op = "rpc" /\ out.type \in {S_production, S_Production}

IsTransfer(req) == req.kind \in {"transfer", "create_transaction"}

\* The two accounts of the request belong to different organizations, or
\* differ in currency from each other or from the request.
Mismatched(req) ==
    \/ AccountRows[req.from].organization_id # AccountRows[req.to].organization_id
    \/ AccountRows[req.from].currency # AccountRows[req.to].currency
    \/ req.kind = "create_transaction"
         /\ req.currency # AccountRows[req.from].currency

\* The call was turned away with Validation before it wrote or sent anything.
RejectedAsValidation(c) ==
    /\ calls[c].pc = "done"
    /\ calls[c].result = Fail("Validation")
    /\ calls[c].ret = NULL
    /\ calls[c].post = NoPost

BadInput(req) == req.amount <= 0 \/ req.key \in {NULL, "", " "}

Involved(req) == {req.from, req.to}

\* The request involves an account that is suspended or closed.
InvolvesInactive(req) ==
    \E a \in Involved(req) :
        a \in DOMAIN accounts /\ accounts[a].status \in {"suspended", "closed"}

\* C21: a deposit, withdraw, transfer or create_transaction that arrives
\* while an account it involves is suspended or closed is rejected with
\* AccountNotActive, creates no Transaction row and posts nothing to the
\* ledger.
ActiveAccountsOnly ==
    [][\A c \in Calls :
          (/\ calls[c].pc = "idle"
           /\ calls'[c].pc # "idle"
           /\ InvolvesInactive(calls'[c].req))
          => /\ calls'[c].pc = "done"
             /\ calls'[c].result = Fail("AccountNotActive")
             /\ calls'[c].post = NoPost
             /\ txs' = txs]_vars

\* The same for the three operations of AccountService alone.
ActiveAccountsOnlyInAccountService ==
    [][\A c \in Calls :
          (/\ calls[c].pc = "idle"
           /\ calls'[c].pc # "idle"
           /\ calls'[c].req.kind # "create_transaction"
           /\ InvolvesInactive(calls'[c].req))
          => /\ calls'[c].pc = "done"
             /\ calls'[c].result = Fail("AccountNotActive")
             /\ calls'[c].post = NoPost
             /\ txs' = txs]_vars


(***************************************************************************)
(* Claims about business registration.                                     *)
(***************************************************************************)
\* The environments of a business, by type.
EnvironmentsOf(b, type) ==
    {e \in DOMAIN environments :
        environments[e].business_id = b /\ environments[e].type = type}

\* Registration k has committed: its response is a success.
Registered(k) == regs[k].pc = "done" /\ regs[k].result.ok

\* C22: register_business commits a business together with exactly two
\* environments (one sandbox, one production) and one admin user, or commits
\* nothing: in every reachable state each business has exactly one sandbox
\* and one production environment, the rows of a registration are in the
\* tables exactly when it succeeded, and a failed registration (duplicate
\* e-mail or database error) leaves no business, environment or user row.
AtomicRegistration ==
    /\ \A b \in DOMAIN businesses :
          /\ Cardinality(EnvironmentsOf(b, "sandbox")) = 1
          /\ Cardinality(EnvironmentsOf(b, "production")) = 1
    /\ \A e \in DOMAIN environments : environments[e].business_id \in DOMAIN businesses
    /\ \A k \in RegCalls :
          /\ Registered(k) <=> NewBusinessIds[k] \in DOMAIN businesses
          /\ Registered(k) <=> NewSandboxIds[k] \in DOMAIN environments
          /\ Registered(k) <=> NewProductionIds[k] \in DOMAIN environments
          /\ Registered(k) <=> NewAdminIds[k] \in DOMAIN users
          /\ Registered(k) =>
                /\ environments[NewSandboxIds[k]] =
                      [business_id |-> NewBusinessIds[k], type |-> "sandbox",
                       status |-> "active"]
                /\ environments[NewProductionIds[k]] =
                      [business_id |-> NewBusinessIds[k], type |-> "production",
                       status |-> "active"]
                /\ users[NewAdminIds[k]].business_id = NewBusinessIds[k]
                /\ users[NewAdminIds[k]].role = "admin"
                /\ Cardinality({u \in DOMAIN users :
                        users[u].business_id = NewBusinessIds[k]}) = 1

\* One registration committed, and another one for the same e-mail failed
\* after it had inserted its business and both environments.
AtomicRegistrationWitness ==
    \E k, j \in RegCalls :
        /\ Registered(k)
        /\ regs[j].pc = "done"
        /\ regs[j].result = BadRequest("Email already exists")
        /\ regs[j].req.admin_email = regs[k].req.admin_email
        /\ regs[j].written = {"business", "sandbox", "production"}


\* A login is served in this step.
LoginServed == authOut'.op = "login" /\ (authOut' # authOut \/ sessions' # sessions)

\* Registration k committed earlier with the e-mail and password the login
\* presents.
RegisteredWith(k, req) ==
    /\ Registered(k)
    /\ regs[k].req.admin_email = req.email
    /\ regs[k].req.admin_password = req.password

\* The login succeeded and created a session for a user of business b.
SessionFor(b) ==
    /\ authOut'.result.ok
    /\ authOut'.result.refresh_token \in DOMAIN sessions' \ DOMAIN sessions
    /\ users[sessions'[authOut'.result.refresh_token].user_id].business_id = b

\* C23: after register_business succeeded with (admin_email, admin_password),
\* a login with that e-mail and password, with no environment_id in the
\* request as well as with one, succeeds and creates a session for a user
\* whose business_id is the new business id.
RegisterThenLogin ==
    [][\A k \in RegCalls :
          (LoginServed /\ RegisteredWith(k, authOut'.req))
          => SessionFor(NewBusinessIds[k])]_vars

\* The same for a login that names the production environment of the new
\* business.
RegisterThenLoginInProduction ==
    [][\A k \in RegCalls :
          (/\ LoginServed
           /\ RegisteredWith(k, authOut'.req)
           /\ authOut'.req.environment_id = NewProductionIds[k])
          => SessionFor(NewBusinessIds[k])]_vars


(***************************************************************************)
(* Claims about GET /me and POST /users.                                   *)
(***************************************************************************)
\* The request carries a bearer token of an active user, and no API key,
\* and names environment e of the user's business, where the user has no row.
OtherEnvironmentOfBusiness(h, e) ==
    /\ TrimHeader(h.api_key) = NULL
    /\ h.authorization.kind = "bearer"
    /\ h.authorization.signed
    /\ TrimHeader(h.env_id) = e
    /\ e \in DOMAIN environments
    /\ LET u == h.authorization.claims.sub
       IN  /\ users[u].status = "active"
           /\ users[u].environment_id # e
           /\ env_ok(e, users[u].business_id)

\* C24: a bearer-authenticated user with an active row in one environment
\* of their business and none in the requested environment gets a
\* successful `me` response for the requested environment, if that
\* environment belongs to the same business; the extractor does not reject
\* the request before the handler runs.
MeEnvironmentFallback ==
    (/\ authOut.op = "me"
     /\ \E e \in DOMAIN environments : OtherEnvironmentOfBusiness(authOut.req.headers, e))
    => /\ authOut.result.ok
       /\ authOut.result.environment.id = TrimHeader(authOut.req.headers.env_id)
       /\ authOut.result.user.id = authOut.req.headers.authorization.claims.sub

\* The handler alone, given the context the claim's request would produce,
\* does fall back to the user's row in the other environment.
MeHandlerFallsBack ==
    \A u \in DOMAIN users : \A e \in DOMAIN environments :
        (users[u].status = "active" /\ users[u].environment_id # e
            /\ env_ok(e, users[u].business_id))
        => LET result == me(AuthOk(u, NoKey, users[u].business_id, e).ctx)
           IN  result.ok /\ result.user.id = u /\ result.environment.id = e

\* The request carries credentials create_user is meant to accept: the
\* bearer token of an admin of the selected environment, or an active API
\* key of the business the selected environment belongs to.
AllowedToCreate(h) ==
    LET e == TrimHeader(h.env_id)
    IN  IF TrimHeader(h.api_key) # NULL
        THEN \E k \in KeyByHash(hash_api_key(TrimHeader(h.api_key))) :
                ~KeyRejected(apiKeys[k]) /\ env_ok(e, apiKeys[k].business_id)
        ELSE /\ h.authorization.kind = "bearer"
             /\ h.authorization.signed
             /\ LET u == h.authorization.claims.sub
                IN  /\ users[u].status = "active"
                    /\ users[u].role = "admin"
                    /\ users[u].environment_id = e

\* A create_user is served in this step.
CreateUserServed ==
    /\ authOut'.op = "create_user"
    /\ (authOut' # authOut \/ users' # users \/ accounts' # accounts)

\* The step created the user row and provisioned the default account.
UserAndAccountCreated ==
    /\ authOut'.result.ok
    /\ authOut'.result.user_id \in DOMAIN users' \ DOMAIN users
    /\ \E a \in DOMAIN accounts' \ DOMAIN accounts :
          accounts'[a].user_id = authOut'.result.user_id

\* C25: create_user completes successfully, with the user row created and a
\* default account provisioned, when the caller is an admin of the selected
\* environment and also when the caller is a valid API key of the business
\* (the e-mail being new and the Accounts service answering); it never
\* returns an error after having committed the user row solely because the
\* principal is an API key.
CreateUserAuthorisation ==
    [][CreateUserServed =>
         /\ (/\ AllowedToCreate(authOut'.req.headers)
             /\ ~unique_email(authOut'.req.email)
             /\ authOut'.req.rpc = "created") => UserAndAccountCreated
         /\ (/\ TrimHeader(authOut'.req.headers.api_key) # NULL
             /\ authOut'.req.rpc = "created"
             /\ users' # users) => authOut'.result.ok]_vars

\* The same for callers that are admins of the selected environment.
CreateUserByAdmin ==
    [][(/\ CreateUserServed
        /\ TrimHeader(authOut'.req.headers.api_key) = NULL
        /\ AllowedToCreate(authOut'.req.headers)
        /\ ~unique_email(authOut'.req.email)
        /\ authOut'.req.rpc = "created") => UserAndAccountCreated]_vars


(***************************************************************************)
(* Claims about rate limiting and the client key.                          *)
(***************************************************************************)
\* The calls of the same client key that left the lock before call i.
EarlierCalls(i) ==
    {j \in 1..(i - 1) : allowLog[j].client_key = allowLog[i].client_key}

\* The latest of them.
LastCall(i) == CHOOSE j \in EarlierCalls(i) : \A k \in EarlierCalls(i) : k <= j

\* The earlier calls that were allowed in the window call i was counted in.
AllowedInWindow(i) ==
    {j \in EarlierCalls(i) : allowLog[j].start = allowLog[i].start
                             /\ allowLog[j].result}

\* Call i met no window of its key, or one that started more than
\* LimitWindow before it.
WindowOver(i) ==
    \/ EarlierCalls(i) = {}
    \/ allowLog[i].now - allowLog[LastCall(i)].start > LimitWindow

\* C26: for every client key and every window at most LimitMax calls of
\* allow() return true; a call returns false exactly when LimitMax calls were
\* already allowed in the current window of its key, so every further call is
\* refused until the window is over; and a call that comes more than
\* LimitWindow after the start of the window starts a new window with itself
\* as the first call, while any earlier call stays in the window it found.
RateLimitBound ==
    \A i \in 1..Len(allowLog) :
        LET e == allowLog[i]
            before == Cardinality(AllowedInWindow(i))
        IN /\ before + (IF e.result THEN 1 ELSE 0) <= LimitMax
           /\ e.result = (before < LimitMax)
           /\ IF WindowOver(i)
              THEN e.start = e.now /\ e.result /\ e.count = 1
              ELSE e.start = allowLog[LastCall(i)].start

\* C26 witness: one key was allowed LimitMax times in a window, then refused
\* in that window, and allowed again in a later window.
RateLimitBoundWitness ==
    \E i, j \in 1..Len(allowLog) :
        /\ i < j
        /\ allowLog[i].client_key = allowLog[j].client_key
        /\ ~allowLog[i].result
        /\ Cardinality(AllowedInWindow(i)) = LimitMax
        /\ allowLog[j].result
        /\ allowLog[j].start > allowLog[i].start


\* The keyed requests whose immediate peer is no trusted proxy.
FromUntrustedPeer(k) ==
    k.req.peer \notin trusted_proxy_ips(k.req.trusted_proxy_env)

\* Two requests of the same peer under the same proxy list: they differ at
\* most in X-Forwarded-For and X-Real-IP.
SamePeer(k1, k2) ==
    /\ k1.req.peer = k2.req.peer
    /\ k1.req.trusted_proxy_env = k2.req.trusted_proxy_env

\* C27: two requests from the same peer that is no trusted proxy, served the
\* way the services serve them, get the same client key whatever their
\* X-Forwarded-For and X-Real-IP headers say.
NoClientKeySpoofing ==
    \A k1, k2 \in keyLog :
        ( /\ ~k1.connect_info /\ ~k2.connect_info
          /\ SamePeer(k1, k2)
          /\ FromUntrustedPeer(k1) )
        => k1.key = k2.key

\* C27, for requests that carry ConnectInfo: the key of a request whose peer
\* is no trusted proxy is the address of the peer, whatever the headers say.
PeerKeyWithConnectInfo ==
    \A k \in keyLog :
        (k.connect_info /\ FromUntrustedPeer(k)) => k.key = k.req.peer


\* The addresses X-Forwarded-For lists, when every piece is an address.
Chain(k) == parse_forwarded_for(k.req)

\* The keyed requests that carry ConnectInfo of a trusted proxy.
FromTrustedPeer(k) ==
    k.connect_info /\ k.req.peer \in trusted_proxy_ips(k.req.trusted_proxy_env)

\* The last hop of the chain is the peer or a trusted proxy.
LastHopTrusted(k) ==
    /\ Chain(k) # << >>
    /\ \/ Chain(k)[Len(Chain(k))] = k.req.peer
       \/ Chain(k)[Len(Chain(k))] \in trusted_proxy_ips(k.req.trusted_proxy_env)

\* The last hop of the chain is neither the peer nor a trusted proxy.
LastHopForeign(k) == Chain(k) # << >> /\ ~LastHopTrusted(k)

\* Entry i of the chain is no trusted proxy and every later entry is one.
RightMostUntrusted(k, i) ==
    /\ Chain(k)[i] \notin trusted_proxy_ips(k.req.trusted_proxy_env)
    /\ \A j \in (i + 1)..Len(Chain(k)) :
           Chain(k)[j] \in trusted_proxy_ips(k.req.trusted_proxy_env)

\* The key of a request from a trusted proxy whose chain is accepted is the
\* right-most entry of the chain that is no trusted proxy.
ForwardedKey(k) ==
    (FromTrustedPeer(k) /\ LastHopTrusted(k))
    => \A i \in 1..Len(Chain(k)) : RightMostUntrusted(k, i) => k.key = Chain(k)[i]

\* C28 as stated: from a trusted proxy the key is the right-most entry of
\* X-Forwarded-For that is no trusted proxy, and when the last hop of the
\* chain is neither the peer nor a trusted proxy the key is the peer address.
TrustedProxyClientKey ==
    \A k \in keyLog :
        /\ ForwardedKey(k)
        /\ (FromTrustedPeer(k) /\ LastHopForeign(k)) => k.key = k.req.peer

\* C28 amended: as above, but when the chain is ignored the key is the
\* address of X-Real-IP if that header holds one, and the peer address only
\* otherwise.
TrustedProxyClientKeyOrRealIp ==
    \A k \in keyLog :
        /\ ForwardedKey(k)
        /\ (FromTrustedPeer(k) /\ LastHopForeign(k))
           => k.key = IF \E t \in DOMAIN IpTexts : trim(k.req.x_real_ip) = <<t>>
                      THEN IpTexts[CHOOSE t \in DOMAIN IpTexts :
                                       trim(k.req.x_real_ip) = <<t>>]
                      ELSE k.req.peer

\* C28 witness: a trusted proxy forwarded a chain with two entries that are
\* no proxies before the proxies, and another request from a trusted proxy
\* had a foreign last hop and an X-Real-IP address.
TrustedProxyClientKeyWitness ==
    \E k1, k2 \in keyLog :
        /\ FromTrustedPeer(k1) /\ LastHopTrusted(k1)
        /\ \E i \in 2..Len(Chain(k1)) :
               /\ RightMostUntrusted(k1, i)
               /\ Chain(k1)[i - 1] # Chain(k1)[i]
               /\ k1.key = Chain(k1)[i]
        /\ FromTrustedPeer(k2) /\ LastHopForeign(k2)
        /\ k2.key # k2.req.peer


(***************************************************************************)
(* Claims about what the Users service gives away.                         *)
(***************************************************************************)
\* Request r was answered.
Answered(r) == requests[r].pc = "done"

AccountsOfUser(user_id) ==
    {a \in DOMAIN accounts \ AccountIds : accounts[a].user_id = user_id}

\* The messages delivered at least once.
Delivered == {e \in EventIds : events[e].delivered > 0}

\* C30: however often a user.created message of a customer is delivered, at
\* most one default account exists for its user.
IdempotentUserCreated ==
    \A e \in Delivered :
        user_role(events[e]) = "CUSTOMER"
        => Cardinality(AccountsOfUser(events[e].user_id)) <= 1

\* C30, what each delivery does: a message of another role creates no
\* account, a message of a customer at most one account per delivery, and
\* exactly one when its first delivery was acknowledged.
OneAccountPerDelivery ==
    \A e \in Delivered :
        LET n == Cardinality(AccountsOfUser(events[e].user_id))
        IN /\ n <= events[e].delivered
           /\ user_role(events[e]) # "CUSTOMER" => n = 0
           /\ ( /\ user_role(events[e]) = "CUSTOMER"
                /\ events[e].state = "acked" /\ events[e].delivered = 1 )
              => n = 1


\* Message e is delivered in this step.
DeliveryOf(e) == events'[e].delivered = events[e].delivered + 1

\* The step creates one checking USD account for the user of message e and
\* publishes account.created for it.
ProvisionedFor(e) ==
    /\ Len(published') = Len(published) + 1
    /\ LET report == published'[Len(published')]
       IN /\ report.user_id = events[e].user_id
          /\ DOMAIN accounts' = DOMAIN accounts \cup {report.account_id}
          /\ report.account_id \notin DOMAIN accounts
          /\ accounts'[report.account_id].user_id = events[e].user_id
          /\ accounts'[report.account_id].account_type = "checking"
          /\ accounts'[report.account_id].currency = "USD"

\* C31: a delivery acknowledges its message only if the message is of
\* another role than CUSTOMER and the delivery created and published
\* nothing, or if the delivery created the default checking USD account and
\* published account.created; a delivery in which create_account or the
\* publish failed leaves the message unacknowledged in the stream.
AckAfterProcessing ==
    [][\A e \in EventIds :
          DeliveryOf(e) =>
            /\ events'[e].state = "acked" =>
                 IF user_role(events[e]) = "CUSTOMER"
                 THEN ProvisionedFor(e)
                 ELSE accounts' = accounts /\ published' = published
            /\ events'[e].outcome \in {"create_failed", "publish_failed"} =>
                 events'[e].state = "pending"]_vars

\* C31 witness: a customer message was acknowledged on its second delivery,
\* after a failed one, and a message of another role was acknowledged.
AckAfterProcessingWitness ==
    \E e1, e2 \in EventIds :
        /\ user_role(events[e1]) = "CUSTOMER"
        /\ events[e1].state = "acked" /\ events[e1].delivered = 2
        /\ Cardinality(AccountsOfUser(events[e1].user_id)) = 1
        /\ events[e2].state = "acked" /\ events[e2].role = "ADMIN"


(***************************************************************************)
(* Claims about the middleware stacks.                                     *)
(***************************************************************************)
\* The id the client sent, without the blanks around it.
SentId == SelectSeq(httpOut.sent, LAMBDA t : t # " ")

\* The response carries the id the client sent, or one the service made up
\* when the client sent none.
CarriesCorrelationId ==
    IF SentId # << >> THEN httpOut.res.x_correlation_id = SentId
    ELSE \E i \in 1..Len(NewCorrelationIds) :
            httpOut.res.x_correlation_id = <<NewCorrelationIds[i]>>

\* A request under /api/ was answered.
ApiAnswered ==
    httpOut.served > 0 /\ Len(httpOut.path) >= 2 /\ httpOut.path[1] = "api"

\* C32: every response to an /api/ request of either service carries the
\* correlation id, also the responses of the internal-caller guard and of
\* the rate limiter.
CorrelationIdOnEveryResponse == ApiAnswered => CarriesCorrelationId

\* C32, without the responses of the internal-caller guard: every other
\* response to an /api/ request carries the correlation id, those of the
\* rate limiter included.
CorrelationIdBehindGuard ==
    (ApiAnswered /\ httpOut.res.status # 403) => CarriesCorrelationId


(***************************************************************************)
(* Claims about account numbers.                                           *)
(***************************************************************************)
\* The Luhn value of a digit in a doubled position.
LuhnDoubled == <<0, 2, 4, 6, 8, 1, 3, 5, 7, 9>>

\* The value of the digit at position i of a number.
DigitAt(number, i) == CHOOSE d \in 0..9 : DigitChars[d + 1] = number[i]

RECURSIVE LuhnTotal(_, _)
\* The Luhn total of the first i digits of a number: counted from the right
\* end of the number, every second digit is doubled.
LuhnTotal(number, i) ==
    IF i = 0 THEN 0
    ELSE (IF (Len(number) - i) % 2 = 1
          THEN LuhnDoubled[DigitAt(number, i) + 1]
          ELSE DigitAt(number, i))
         + LuhnTotal(number, i - 1)

\* A number of the asked length brought into 10..16, of digits only, not
\* starting with 0, whose last digit is the Luhn check digit of the others.
WellFormedNumber(number, requested) ==
    /\ Len(number) = IF requested < 10 THEN 10
                     ELSE IF requested > 16 THEN 16 ELSE requested
    /\ \A i \in 1..Len(number) : \E d \in 0..9 : DigitChars[d + 1] = number[i]
    /\ number[1] # "0"
    /\ LuhnTotal(number, Len(number)) % 10 = 0

\* C33: a number that generate_account_number returns is well formed, is
\* accepted by validate_account_number and was not in storage when it was
\* looked up; the call goes on while fewer than 10 rounds met a stored
\* number and ends with Internal after the tenth.
AccountNumberWellFormed ==
    [][\A g \in GenCalls :
          /\ (gens[g].pc = "loop" /\ gens'[g].pc = "created") =>
                /\ gens'[g].result = [ok |-> TRUE]
                /\ WellFormedNumber(gens'[g].account_number, gens[g].requested)
                /\ validate_account_number(gens'[g].account_number)
                /\ gens'[g].account_number \notin accountNumbers
          /\ (gens[g].pc = "loop" /\ gens'[g].pc = "loop") =>
                gens[g].attempts < 10 /\ gens'[g].attempts = gens[g].attempts + 1
          /\ (gens[g].pc = "loop" /\ gens'[g].pc = "done") =>
                gens[g].attempts = 10 /\ gens'[g].result = InternalError]_vars

\* C33 witness: a call that asked for 17 digits returned and stored a number
\* of 16, and a later call gave up after ten rounds.
AccountNumberWellFormedWitness ==
    /\ gens[1].pc = "done" /\ gens[1].requested = 17
    /\ Len(gens[1].account_number) = 16
    /\ gens[1].account_number \in accountNumbers
    /\ gens[2].pc = "done" /\ gens[2].result = InternalError
    /\ gens[2].attempts = 10


\* C34 (SpecRetry): recovery to a terminal state. Under fair scheduling of
\* the retry worker every intent that was left pending and that the ledger
\* answers, by accepting or by rejecting it, eventually has a terminal
\* status, posted or failed; a rejected intent does not stay pending.
RecoveryToTerminal ==
    \A id \in RetryIds :
        (txs[id].status = "pending" /\ ledgerFate[id] \in {"posted", "rejected"})
            ~> (txs[id].status \in {"posted", "failed"})

\* C34, when the ledger accepts every intent: each of them eventually
\* becomes posted.
RecoveryWhenLedgerAccepts ==
    (\A id \in RetryIds : ledgerFate[id] = "posted")
        => \A id \in RetryIds : <>(txs[id].status = "posted")

\* C34, what the worker writes: it never gives an intent the status failed.
WorkerNeverFails == \A id \in RetryIds : txs[id].status # "failed"


\* The rows of user u with used_at NULL and expires_at > now.
LiveTokens(u) ==
    {id \in DOMAIN tokens :
        /\ tokens[id].user_id = u
        /\ tokens[id].used_at = NoTime
        /\ tokens[id].expires_at > now}

\* C35 (SpecReset): one live reset token per user. In every reachable state,
\* two concurrent reset requests for one address included, each user has at
\* most one token row with used_at NULL and expires_at > now.
OneLiveTokenPerUser == \A u \in UserIds : Cardinality(LiveTokens(u)) <= 1

\* C35, the invalidation by itself: the step of request_password_reset that
\* invalidates the previous tokens leaves the user without a live token.
InvalidateLeavesNoLiveToken ==
    [][\A r \in ReqCalls :
         (requests[r].pc = "invalidate" /\ requests'[r].pc = "insert")
            => \A id \in DOMAIN tokens' :
                 tokens'[id].user_id = requests[r].user_id
                    => tokens'[id].used_at # NoTime]_vars


\* C36 (SpecSettle): the retry path equals the synchronous path. The ledger
\* post the retry worker issues for an intent has the same organization,
\* environment, source, destination, amount, currency, external transaction
\* id and idempotency key as the post issued by the deposit, withdraw or
\* transfer request that created the intent.
RetryPostEqualsSynchronousPost ==
    \A c \in Calls :
        (/\ calls[c].inserted
         /\ calls[c].post.sent
         /\ wpost.sent
         /\ wpost.external_transaction_id = calls[c].post.external_transaction_id)
        => wpost = calls[c].post

\* C36: the worker re-posts an intent whose creating request posted it before.
RetryPostEqualsSynchronousPostWitness ==
    \E c \in Calls :
        /\ calls[c].inserted
        /\ calls[c].post.sent
        /\ wpost.sent
        /\ wpost.external_transaction_id = calls[c].post.external_transaction_id
        /\ calls[c].req.kind = "withdraw"

\* C36 read over every request that posted under the intent's id, replays of
\* the key with another payload included.
RetryPostEqualsEverySynchronousPost ==
    \A c \in Calls :
        (/\ calls[c].post.sent
         /\ wpost.sent
         /\ wpost.external_transaction_id = calls[c].post.external_transaction_id)
        => wpost = calls[c].post


\* The refresh_token calls that presented token t and succeeded.
Exchanged(t) ==
    {k \in RefreshCalls :
        refreshes[k].pc = "done" /\ refreshes[k].result.ok /\ refreshes[k].token = t}

\* C37 (SpecSession): a refresh token is exchanged at most once. Over any
\* interleaving of concurrent refresh_token calls that present one refresh
\* token, at most one call succeeds and creates a new session from it.
RefreshExchangedOnce ==
    \A t \in RefreshTokens : Cardinality(Exchanged(t)) <= 1

\* C37, calls that do not overlap: a refresh_token call whose lookup finds
\* the session already revoked answers Unauthorized and writes nothing.
RefreshAfterRotationRefused ==
    [][\A k \in RefreshCalls :
         (/\ refreshes[k].pc = "idle"
          /\ refreshes'[k].pc # "idle"
          /\ \E s \in SessionByToken(refreshes'[k].token) :
               sessions[s].status # "active")
         => /\ refreshes'[k].pc = "done"
            /\ refreshes'[k].result = Unauthorized
            /\ sessions' = sessions]_vars


\* An extractor step: a request with a decodable bearer token was answered.
BearerAnswered ==
    /\ authOut'.op = "authenticate"
    /\ sessions' = sessions
    /\ refreshes' = refreshes
    /\ jwts' = jwts
    /\ authOut'.req.headers.authorization.kind = "bearer"
    /\ authOut'.req.headers.authorization.signed

\* The session minted together with the bearer token of the answered request.
BearerSession == sessions[authOut'.req.headers.authorization.claims.jti]

\* C38 (SpecRevoke): revocation reaches the bearer token. Once the session a
\* login or refresh created is revoked, by revoke_token or by rotation, the
\* extractor rejects a request that presents the unexpired bearer token
\* minted together with that session (same jti).
RevocationReachesBearer ==
    [][(BearerAnswered /\ BearerSession.status = "revoked")
          => ~authOut'.result.ok]_vars

\* C38, what the extractor does look at: a bearer token that does not decode
\* is rejected, and a decodable one is accepted exactly when its user is
\* active in the environment the request names.
BearerCheckedAgainstUser ==
    [][(/\ authOut'.op = "authenticate"
        /\ authOut'.req.headers.authorization.kind = "bearer")
       => LET h == authOut'.req.headers
              a == h.authorization
          IN  IF ~a.signed THEN authOut'.result = Unauthorized
              ELSE authOut'.result.ok
                     <=> users[a.claims.sub].environment_id = h.env_id]_vars


\* A money-movement call that returned a transaction row.
Returned(c) == calls[c].pc = "done" /\ calls[c].result.ok

\* The organization and the environment a request acts in: those of its
\* account for deposit, withdraw and transfer, the X-Environment value for
\* create_transaction.
RequestOrganization(req) == accounts[req.from].organization_id
RequestEnvironment(req) ==
    IF req.kind = "create_transaction" THEN req.env
    ELSE accounts[req.from].environment

\* C39 (SpecScope): idempotency-key scope. Two calls with one key get two
\* distinct Transaction rows when their organizations or their environments
\* differ, and the same row when both act in one (organization, environment),
\* whatever account, amount or kind the second passes; the operations pass
\* the request's environment to the idempotency lookup.
IdempotencyKeyScope ==
    \A c, d \in Calls :
        (c # d /\ Returned(c) /\ Returned(d) /\ calls[c].req.key = calls[d].req.key)
        => ((/\ RequestOrganization(calls[c].req) = RequestOrganization(calls[d].req)
             /\ RequestEnvironment(calls[c].req) = RequestEnvironment(calls[d].req))
            <=> calls[c].ret.id = calls[d].ret.id)

\* C39 with the environment the operation hands to the lookup: the
\* X-Environment value for create_transaction, none for deposit, withdraw
\* and transfer.
IdempotencyKeyScopeAsPassed ==
    \A c, d \in Calls :
        (c # d /\ Returned(c) /\ Returned(d) /\ calls[c].req.key = calls[d].req.key)
        => ((/\ RequestOrganization(calls[c].req) = RequestOrganization(calls[d].req)
             /\ Coalesce(calls[c].req.env) = Coalesce(calls[d].req.env))
            <=> calls[c].ret.id = calls[d].ret.id)

\* C39: two organizations never share a row.
OrganizationsDoNotShareRows ==
    \A c, d \in Calls :
        (/\ Returned(c) /\ Returned(d)
         /\ RequestOrganization(calls[c].req) # RequestOrganization(calls[d].req))
        => calls[c].ret.id # calls[d].ret.id


\* C39: a deposit in the production environment was answered with the row
\* of a deposit in the sandbox environment of the same organization.
SharedAcrossEnvironments ==
    \E c, d \in Calls :
        /\ Returned(c) /\ Returned(d)
        /\ calls[c].req.from = "A1" /\ calls[d].req.from = "A3"
        /\ calls[c].req.kind = "deposit" /\ calls[d].req.kind = "deposit"
        /\ calls[c].ret.id = calls[d].ret.id


\* reset_password call k returns Ok in this step.
ResetSucceeds(k) ==
    /\ resets[k].pc # "done"
    /\ resets'[k].pc = "done"
    /\ resets'[k].result = [ok |-> TRUE]

\* C40 (SpecReset): reset consume is all-or-nothing. The step in which a
\* reset_password call succeeds marks its token used, replaces the user's
\* password hash and marks the user's sibling unused tokens used, all at
\* once; every other step of a reset_password call, the rejection of a
\* password shorter than 8 characters or of an unclaimable token included,
\* leaves the token rows and the users unchanged.
ResetAllOrNothing ==
    [][\A k \in ResetCalls :
         /\ ResetSucceeds(k)
            => /\ tokens[resets[k].claimed].used_at = NoTime
               /\ tokens'[resets[k].claimed].used_at # NoTime
               /\ users'[resets[k].user_id].password_hash
                    = <<"argon2", resets[k].new_password>>
               /\ \A id \in resets[k].sibs :
                    tokens[id].used_at = NoTime /\ tokens'[id].used_at # NoTime
         /\ (resets'[k] # resets[k] /\ \A j \in ResetCalls : ~ResetSucceeds(j))
            => tokens' = tokens /\ users' = users]_vars

\* C40: a weak-password attempt with a valid token was rejected, and a later
\* call with the same token and a good password succeeded and also
\* invalidated a sibling token, which no reset request had invalidated (it
\* was marked used after every request bound its invalidation time).
ResetAllOrNothingWitness ==
    \E k, j \in ResetCalls :
        /\ resets[k].pc = "done" /\ resets[k].result = WeakPassword
        /\ resets[j].pc = "done" /\ resets[j].result = [ok |-> TRUE]
        /\ resets[j].token = resets[k].token
        /\ \A r \in ReqCalls :
             requests[r].pc = "done" /\ requests[r].user_id = resets[j].user_id
        /\ \E id \in DOMAIN tokens :
             /\ id # resets[j].claimed
             /\ tokens[id].user_id = resets[j].user_id
             /\ \A r \in ReqCalls : tokens[id].used_at > requests[r].used_at


====
